---------------------------- MODULE Spec2Model ----------------------------
(***************************************************************************)
(* A model of the daily rates updater: the scripts src/run.mjs and the     *)
(* "exactly one table" script of src/unnamed/part_000 (lines 272-609).     *)
(*                                                                         *)
(* Text is a sequence of tokens.  A token is a string: either one          *)
(* character (" ", "%", "1", "Y", ...) or an atomic lexeme (a date such as *)
(* "16 Jan 2026", the word "Updated", a heading, a run of letters).  The   *)
(* character length of a token is Len(token).  The date pattern            *)
(* /\b\d{1,2}\s+[A-Za-z]{3}\s+\d{4}\b/ matches exactly the date lexemes    *)
(* that have a word boundary on both sides: no other token of the model    *)
(* holds four digits in a row and no text of the model puts a digit right  *)
(* before a date lexeme, so no match can span tokens.  Node.textContent    *)
(* joins the texts of adjacent elements with nothing between them, which   *)
(* is how a date lexeme comes to lack a word boundary.                     *)
(***************************************************************************)
EXTENDS Integers, Sequences, FiniteSets, TLC

VARIABLES
  pc,              \* position of the script, or of a function-level harness
  variant,         \* "run" (src/run.mjs) or "part000" (part_000:272-609)
  arg,             \* the input of a function-level harness
  ret,             \* the value a function-level harness got back
  env,             \* process.env: which of the three required values are set
  doc,             \* the rendered page: nodes in document order
  treasuryCard, sofrCard, treasuryTable, sofrTable,
  treasury_dates, sofr_dates, treasuryUpdated, sofrUpdated,
  rowIdx,          \* index of the next row of the for..of loop over rows
  treasury, sofr,  \* the key -> RateRecord mappings being built
  posted,          \* the bodies POSTed to RATES_ENDPOINT, in order
  res,             \* the response of the endpoint, NoResponse before it
  err,             \* the message of the error thrown, "" when none
  exitCode         \* the exit code of the process, -1 while it runs

vars == <<pc, variant, arg, ret, env, doc, treasuryCard, sofrCard,
          treasuryTable, sofrTable, treasury_dates, sofr_dates,
          treasuryUpdated, sofrUpdated, rowIdx, treasury, sofr, posted,
          res, err, exitCode>>

\* JavaScript values.  A number is [kind |-> "num", m, e], the value m / 10^e
\* with m not a multiple of 10 unless e = 0; null and NaN have the same
\* fields.  A key that is null is NullStr, a text that is null is NoText (no
\* function of the scripts returns the empty string where it may return
\* null), a node handle that is null is NoNode, a DateTriple that was not
\* assigned is NoDates.
Num(m, e) == [kind |-> "num", m |-> m, e |-> e]
Null == [kind |-> "null", m |-> 0, e |-> 0]
NaN == [kind |-> "nan", m |-> 0, e |-> 0]
NullStr == "null"
NoText == <<>>
NoNode == 0
NoDates == [col1 |-> NoText, col2 |-> NoText, col3 |-> NoText]

\* A mapping from term keys to RateRecords is a function on all the keys of
\* its family; the keys the object does not hold have the value Absent.
Absent == [col1 |-> Null, col2 |-> Null, col3 |-> Null]

TreasuryKeys == {"1y", "2y", "3y", "5y", "7y", "10y", "30y"}
SofrKeys == {"sofr", "30d-avg", "90d-avg", "1m-term", "3m-term"}

-----------------------------------------------------------------------------
(* Bounds of the enumerated inputs.                                        *)

MaxCellLen == 3       \* characters of an enumerated value cell
MaxLabelParts == 4   \* parts of an enumerated row label

-----------------------------------------------------------------------------
(* Characters and tokens.                                                  *)

Digits == {"0", "1", "2", "3", "4", "5", "6", "7", "8", "9"}

\* JavaScript's \s, as far as the model's texts hold it.
WhitespaceChars == {" ", "\n", "\t"}

\* The date lexemes of the model's pages: each matches
\* \d{1,2}\s+[A-Za-z]{3}\s+\d{4} as a whole; one is written with two spaces.
DateToks ==
  {"16 Jan 2026", "9 Jan 2026", "2 Jan 2026", "21 Jan 2026", "9  Jan 2026"}

Letters ==
  {"a", "b", "c", "d", "e", "f", "g", "h", "i", "j", "k", "l", "m", "n", "o",
   "p", "q", "r", "s", "t", "u", "v", "w", "x", "y", "z", "A", "B", "C", "D",
   "E", "F", "G", "H", "I", "J", "K", "L", "M", "N", "O", "P", "Q", "R", "S",
   "T", "U", "V", "W", "X", "Y", "Z"}

\* The word characters \w of a regular expression.
WordChars == Letters \cup Digits \cup {"_"}

\* The first (last) character of the token t is a word character.
WordStart(t) == SubSeq(t, 1, 1) \in WordChars
WordEnd(t) == SubSeq(t, Len(t), Len(t)) \in WordChars

DigitVal(c) ==
  CASE c = "0" -> 0 [] c = "1" -> 1 [] c = "2" -> 2 [] c = "3" -> 3
    [] c = "4" -> 4 [] c = "5" -> 5 [] c = "6" -> 6 [] c = "7" -> 7
    [] c = "8" -> 8 [] c = "9" -> 9

\* String.prototype.toLowerCase, token by token.
LowerTok(t) ==
  CASE t = "Y" -> "y" [] t = "E" -> "e" [] t = "A" -> "a" [] t = "R" -> "r"
    [] t = "S" -> "s" [] t = "O" -> "o" [] t = "F" -> "f" [] t = "D" -> "d"
    [] t = "M" -> "m" [] t = "T" -> "t" [] t = "N" -> "n" [] t = "V" -> "v"
    [] t = "G" -> "g" [] t = "H" -> "h" [] t = "U" -> "u"
    [] t = "Updated" -> "updated" [] t = "UPDATED" -> "updated"
    [] OTHER -> t

toLowerCase(s) == [i \in 1..Len(s) |-> LowerTok(s[i])]

Indices(s) == [i \in 1..Len(s) |-> i]

\* The tokens of s that are not whitespace, by index.
Inked(s) == {i \in 1..Len(s) : s[i] \notin WhitespaceChars}

TrimLeft(s) ==
  IF Inked(s) = {} THEN <<>>
  ELSE SubSeq(s, CHOOSE i \in Inked(s) : \A j \in Inked(s) : i <= j, Len(s))

TrimRight(s) ==
  IF Inked(s) = {} THEN <<>>
  ELSE SubSeq(s, 1, CHOOSE i \in Inked(s) : \A j \in Inked(s) : i >= j)

\* String.prototype.trim
trim(s) == TrimRight(TrimLeft(s))

\* s.replace(/\s+/g, "")
RemoveWhitespace(s) == SelectSeq(s, LAMBDA c : c \notin WhitespaceChars)

\* The whitespace inside a lexeme, collapsed.
CollapseTok(t) == IF t = "9  Jan 2026" THEN "9 Jan 2026" ELSE t

\* s.replace(/\s+/g, " "): every run of whitespace becomes one space.
CollapseWhitespace(s) ==
  LET kept == SelectSeq(Indices(s),
                        LAMBDA i : \/ s[i] \notin WhitespaceChars
                                   \/ i = 1
                                   \/ s[i - 1] \notin WhitespaceChars)
  IN [k \in 1..Len(kept) |->
        IF s[kept[k]] \in WhitespaceChars THEN " "
        ELSE CollapseTok(s[kept[k]])]

\* String.prototype.startsWith
startsWith(s, p) == Len(p) <= Len(s) /\ SubSeq(s, 1, Len(p)) = p

\* String.prototype.includes
includes(s, p) ==
  \E i \in 0..(Len(s) - Len(p)) : SubSeq(s, i + 1, i + Len(p)) = p

\* The number of characters of a text.
RECURSIVE CharLen(_)
CharLen(s) ==
  IF s = <<>> THEN 0
  ELSE IF Len(s) = 1 THEN Len(s[1])
  ELSE CharLen(SubSeq(s, 1, Len(s) \div 2))
       + CharLen(SubSeq(s, Len(s) \div 2 + 1, Len(s)))

\* The first n characters of a text; the last token may be cut.
TakeChars(s, n) ==
  LET fits == {k \in 0..Len(s) : k <= n /\ CharLen(SubSeq(s, 1, k)) <= n}
      whole == CHOOSE k \in fits : \A j \in fits : k >= j
      rest == n - CharLen(SubSeq(s, 1, whole))
  IN IF whole = Len(s) \/ rest = 0 THEN SubSeq(s, 1, whole)
     ELSE Append(SubSeq(s, 1, whole), SubSeq(s[whole + 1], 1, rest))

\* /\b\d{1,2}\s+[A-Za-z]{3}\s+\d{4}\b/ matches at token i of s.
DateMatchAt(s, i) ==
  /\ s[i] \in DateToks
  /\ i = 1 \/ ~WordEnd(s[i - 1])
  /\ i = Len(s) \/ ~WordStart(s[i + 1])

\* text.match(/\b\d{1,2}\s+[A-Za-z]{3}\s+\d{4}\b/g) || []: the matches, each
\* a text of one lexeme.
DateMatches(s) ==
  LET at == SelectSeq(Indices(s), LAMBDA i : DateMatchAt(s, i))
  IN [k \in 1..Len(at) |-> <<s[at[k]]>>]

normalizeDateText(s) ==
  IF s = <<>> THEN NoText ELSE CollapseWhitespace(trim(s))

firstDateLike(text) ==
  LET m == DateMatches(text)
  IN IF m # <<>> THEN normalizeDateText(m[1]) ELSE NoText

-----------------------------------------------------------------------------
(* parsePercentToNumber.                                                   *)

RECURSIVE DigitsValue(_)
DigitsValue(s) ==
  IF s = <<>> THEN 0
  ELSE 10 * DigitsValue(SubSeq(s, 1, Len(s) - 1)) + DigitVal(s[Len(s)])

RECURSIVE Normalize(_, _)
Normalize(m, e) ==
  IF e > 0 /\ m % 10 = 0 THEN Normalize(m \div 10, e - 1)
  ELSE Num(m, e)

\* Number(string) for strings without whitespace: "" is 0, a signed decimal
\* literal is its value, anything else is NaN.  The exponent, radix-prefix
\* and Infinity forms need characters (e, x, o, I, or b after 0) that no
\* cell of the model holds.
NumberOf(s) ==
  IF s = <<>> THEN Num(0, 0)
  ELSE
    LET signed == Head(s) \in {"-", "+"}
        body == IF signed THEN Tail(s) ELSE s
        dots == {i \in 1..Len(body) : body[i] = "."}
        digs == SelectSeq(body, LAMBDA c : c \in Digits)
        wellFormed == /\ \A i \in 1..Len(body) : body[i] \in Digits \cup {"."}
                      /\ Cardinality(dots) <= 1
                      /\ digs # <<>>
        frac == IF dots = {} THEN 0
                ELSE Len(body) - (CHOOSE i \in dots : TRUE)
        mag == DigitsValue(digs)
    IN IF ~wellFormed THEN NaN
       ELSE Normalize(IF Head(s) = "-" THEN 0 - mag ELSE mag, frac)

\* Mutant of parsePercentToNumber: the result of Number is returned without
\* the Number.isFinite check.
parsePercentToNumberUnchecked(v) ==
    LET s == trim(v)
        cleaned == SelectSeq(s, LAMBDA c :
                     c \notin WhitespaceChars \cup {"%"} \cup {","})
    IN NumberOf(cleaned)

\* A cell is never null (a td's textContent || ""), so line 27 never returns.
parsePercentToNumber(v) ==
    LET s == trim(v)
        cleaned == SelectSeq(s, LAMBDA c :
                     c \notin WhitespaceChars \cup {"%"} \cup {","})
        num == NumberOf(cleaned)
    IN IF num # NaN THEN num ELSE Null

-----------------------------------------------------------------------------
(* Function-level harness for parsePercentToNumber.                        *)

CellAlphabet == {"0", "5", ".", "%", ",", " ", "a"}

RECURSIVE SeqsUpTo(_, _)
SeqsUpTo(S, n) ==
  IF n = 0 THEN {<<>>}
  ELSE LET shorter == SeqsUpTo(S, n - 1)
       IN shorter \cup {Append(s, c) : s \in shorter, c \in S}

\* The cells of the spec's examples.
ExampleCells ==
  { <<"3", ".", "6", "5", "0", "0", "0", "%">>,
    <<"3", ".", "6", "5", "%">>,
    <<"4", ",", "0", "7", "2", ".", "3", "7">>,
    <<"a", "b", "c">>,
    <<"-", "0", ".", "5">> }

\* What a td's trimmed text can be.
Cells == {trim(s) : s \in SeqsUpTo(CellAlphabet, MaxCellLen)} \cup ExampleCells

\* A response of the endpoint: its status line and its body.
NoResponse == [status |-> 0, text |-> ""]

\* The variables of main before it runs.
Locals == /\ treasuryCard = NoNode /\ sofrCard = NoNode
          /\ treasuryTable = NoNode /\ sofrTable = NoNode
          /\ treasury_dates = NoDates /\ sofr_dates = NoDates
          /\ treasuryUpdated = NoText /\ sofrUpdated = NoText
          /\ rowIdx = 1
          /\ treasury = [k \in TreasuryKeys |-> Absent]
          /\ sofr = [k \in SofrKeys |-> Absent]
          /\ posted = <<>> /\ res = NoResponse /\ err = "" /\ exitCode = -1

Frame == /\ env = [RATES_ENDPOINT |-> TRUE, RATES_API_TOKEN |-> TRUE,
                   RATES_SOURCE_URL |-> TRUE]
         /\ Locals

InitParse ==
  /\ pc = "call" /\ variant = "run" /\ arg \in Cells /\ ret = Null
  /\ doc = <<>> /\ Frame

CallParse ==
  /\ pc = "call"
  /\ ret' = parsePercentToNumber(arg)
  /\ pc' = "return"
  /\ UNCHANGED <<variant, arg, env, doc, treasuryCard, sofrCard,
                 treasuryTable, sofrTable, treasury_dates, sofr_dates,
                 treasuryUpdated, sofrUpdated, rowIdx, treasury, sofr,
                 posted, err, exitCode, res>>

SpecParse == InitParse /\ [][CallParse]_vars

-----------------------------------------------------------------------------
(* TermKeyMapper: the two mapKey closures.                                 *)

year == <<"y", "e", "a", "r">>

\* Mutant of mapKeyTreasury: the label is not lowercased.
mapKeyTreasuryCaseSensitive(label) ==
  LET t == RemoveWhitespace(label)
  IN IF startsWith(t, <<"1">> \o year) THEN "1y"
     ELSE IF startsWith(t, <<"2">> \o year) THEN "2y"
     ELSE IF startsWith(t, <<"3">> \o year) THEN "3y"
     ELSE IF startsWith(t, <<"5">> \o year) THEN "5y"
     ELSE IF startsWith(t, <<"7">> \o year) THEN "7y"
     ELSE IF startsWith(t, <<"1", "0">> \o year) THEN "10y"
     ELSE IF startsWith(t, <<"3", "0">> \o year) THEN "30y"
     ELSE NullStr

\* mapKey of extractRatesFromTreasuryTable; a null key is NullStr.
mapKeyTreasury(label) ==
  LET t == RemoveWhitespace(toLowerCase(label))
  IN IF startsWith(t, <<"1">> \o year) THEN "1y"
     ELSE IF startsWith(t, <<"2">> \o year) THEN "2y"
     ELSE IF startsWith(t, <<"3">> \o year) THEN "3y"
     ELSE IF startsWith(t, <<"5">> \o year) THEN "5y"
     ELSE IF startsWith(t, <<"7">> \o year) THEN "7y"
     ELSE IF startsWith(t, <<"1", "0">> \o year) THEN "10y"
     ELSE IF startsWith(t, <<"3", "0">> \o year) THEN "30y"
     ELSE NullStr

\* mapKey of extractRatesFromSofrTable
mapKeySofr(label) ==
  LET t == trim(toLowerCase(label))
  IN IF t = <<"s", "o", "f", "r">> THEN "sofr"
     ELSE IF includes(t, <<"3", "0", "-", "d", "a", "y">>)
             /\ includes(t, <<"a", "v", "e", "r", "a", "g", "e">>)
          THEN "30d-avg"
     ELSE IF includes(t, <<"9", "0", "-", "d", "a", "y">>)
             /\ includes(t, <<"a", "v", "e", "r", "a", "g", "e">>)
          THEN "90d-avg"
     ELSE IF includes(t, <<"1", "-", "m", "o", "n", "t", "h">>)
             /\ includes(t, <<"t", "e", "r", "m">>)
          THEN "1m-term"
     ELSE IF includes(t, <<"3", "-", "m", "o", "n", "t", "h">>)
             /\ includes(t, <<"t", "e", "r", "m">>)
          THEN "3m-term"
     ELSE NullStr

-----------------------------------------------------------------------------
(* Function-level harness for the two mappers: the labels are what a td's  *)
(* trimmed text can be, built from parts.                                  *)

TreasuryParts ==
  { <<"1">>, <<"3">>, <<"0">>, <<" ">>, <<"Y", "e", "a", "r">>,
    <<"y", "e", "a", "r">> }

SofrParts ==
  { <<"S", "O", "F", "R">>, <<"3", "0", "-", "D", "a", "y">>,
    <<"9", "0", "-", "D", "a", "y">>, <<"A", "v", "e", "r", "a", "g", "e">>,
    <<"1", "-", "M", "o", "n", "t", "h">>,
    <<"3", "-", "M", "o", "n", "t", "h">>, <<"T", "e", "r", "m">>, <<" ">> }

RECURSIVE Concat(_)
Concat(ps) == IF ps = <<>> THEN <<>> ELSE Head(ps) \o Concat(Tail(ps))

\* The labels the spec names, and one label for each key the parts miss.
ExampleLabels ==
  { <<"1", " ", "Y", "e", "a", "r">>, <<"1", "Y", "e", "a", "r">>,
    <<"1", " ", "y", "e", "a", "r">>, <<"2", "0", " ", "Y", "e", "a", "r">>,
    <<"1", "1", " ", "Y", "e", "a", "r">>,
    <<"F", "e", "d", " ", "F", "u", "n", "d", "s">>,
    <<"2", " ", "Y", "e", "a", "r">>, <<"5", " ", "Y", "e", "a", "r">>,
    <<"7", " ", "Y", "e", "a", "r">>, <<"s", "o", "f", "r">> }

Labels ==
  {trim(Concat(ps)) : ps \in SeqsUpTo(TreasuryParts, MaxLabelParts)}
  \cup {trim(Concat(ps)) : ps \in SeqsUpTo(SofrParts, MaxLabelParts)}
  \cup ExampleLabels

InitLabel ==
  /\ pc = "call" /\ variant = "run" /\ arg \in Labels
  /\ ret = [treasury |-> NullStr, sofr |-> NullStr]
  /\ doc = <<>> /\ Frame

CallMapKey ==
  /\ pc = "call"
  /\ ret' = [treasury |-> mapKeyTreasury(arg), sofr |-> mapKeySofr(arg)]
  /\ pc' = "return"
  /\ UNCHANGED <<variant, arg, env, doc, treasuryCard, sofrCard,
                 treasuryTable, sofrTable, treasury_dates, sofr_dates,
                 treasuryUpdated, sofrUpdated, rowIdx, treasury, sofr,
                 posted, err, exitCode, res>>

SpecLabel == InitLabel /\ [][CallMapKey]_vars

-----------------------------------------------------------------------------
(* The rendered page.  doc is the sequence of its elements in document     *)
(* order; an element is a container ("div"), a leaf element with text      *)
(* ("el") or a table, and depth is its distance from the root, so that the *)
(* subtree of an element is the run of deeper elements that follows it.    *)
(* A table holds its th cells and its tbody rows (a row is its td cells);  *)
(* a cell is a text.                                                       *)

Div(d) ==
  [kind |-> "div", depth |-> d, text |-> <<>>, hasThead |-> FALSE,
   thead |-> <<>>, rows |-> <<>>]

El(d, text) ==
  [kind |-> "el", depth |-> d, text |-> text, hasThead |-> FALSE,
   thead |-> <<>>, rows |-> <<>>]

Table(d, hasThead, thead, rows) ==
  [kind |-> "table", depth |-> d, text |-> <<>>, hasThead |-> hasThead,
   thead |-> thead, rows |-> rows]

HeadingT == "U.S. Treasuries"
HeadingS == "Secured Overnight Financing Rate (SOFR)"

Min(S) == CHOOSE x \in S : \A y \in S : x <= y
Max(S) == CHOOSE x \in S : \A y \in S : x >= y

\* The element and its descendants.
Subtree(d, n) ==
  {j \in n..Len(d) : \A k \in (n + 1)..j : d[k].depth > d[n].depth}

\* Node.parentElement
parentElement(d, n) ==
  IF d[n].depth = 0 THEN NoNode
  ELSE Max({j \in 1..(n - 1) : d[j].depth = d[n].depth - 1})

\* el.querySelectorAll("table"): the descendant tables, in document order.
DescendantTables(d, n) == {j \in Subtree(d, n) \ {n} : d[j].kind = "table"}

\* el.querySelector("table")
querySelectorTable(d, n) ==
  IF DescendantTables(d, n) = {} THEN NoNode ELSE Min(DescendantTables(d, n))

\* page.locator(`text=${headingText}`).first(): the first element, in
\* document order, that holds the heading text itself.
locatorFirst(d, headingText) ==
  LET hits == {n \in 1..Len(d) : \E i \in 1..Len(d[n].text) :
                                    d[n].text[i] = headingText}
  IN IF hits = {} THEN NoNode ELSE Min(hits)

ClimbLevelsRun == 16
ClimbLevelsPart000 == 24

\* The loop of findCardRootByHeading in src/run.mjs: the first of cur, its
\* parent, ... (16 elements at most) that has a table below it.
RECURSIVE ClimbHasTable(_, _, _)
ClimbHasTable(d, cur, i) ==
  IF i >= ClimbLevelsRun \/ cur = NoNode THEN NoNode
  ELSE IF querySelectorTable(d, cur) # NoNode THEN cur
  ELSE ClimbHasTable(d, parentElement(d, cur), i + 1)

\* Mutant of ClimbExactlyOne: any table count of at least one is accepted.
RECURSIVE ClimbAtLeastOne(_, _, _)
ClimbAtLeastOne(d, cur, i) ==
  IF i >= ClimbLevelsPart000 \/ cur = NoNode THEN NoNode
  ELSE IF Cardinality(DescendantTables(d, cur)) >= 1 THEN cur
  ELSE ClimbAtLeastOne(d, parentElement(d, cur), i + 1)

\* The loop of findCardRootByHeading in part_000: the first of cur, its
\* parent, ... (24 elements at most) with exactly one table below it.
RECURSIVE ClimbExactlyOne(_, _, _)
ClimbExactlyOne(d, cur, i) ==
  IF i >= ClimbLevelsPart000 \/ cur = NoNode THEN NoNode
  ELSE IF Cardinality(DescendantTables(d, cur)) = 1 THEN cur
  ELSE ClimbExactlyOne(d, parentElement(d, cur), i + 1)

\* findCardRootByHeading of the script v; NoNode when it throws "Could not
\* find card root".  The heading is in the page and visible.
findCardRootByHeading(v, d, headingText) ==
  LET heading == locatorFirst(d, headingText)
  IN IF v = "run" THEN ClimbHasTable(d, heading, 0)
     ELSE ClimbExactlyOne(d, heading, 0)

\* findTableWithin; NoNode when it throws "Could not find table inside card".
findTableWithin(d, cardEl) == querySelectorTable(d, cardEl)

\* The text nodes an element holds itself; for a table, those of its th
\* cells and then of the td cells of its rows.
OwnText(nd) ==
  IF nd.kind = "table" THEN Concat(nd.thead) \o Concat(Concat(nd.rows))
  ELSE nd.text

RECURSIVE TextFrom(_, _, _)
TextFrom(d, j, last) ==
  IF j > last THEN <<>> ELSE OwnText(d[j]) \o TextFrom(d, j + 1, last)

\* Node.textContent: the text nodes below the element, concatenated in
\* document order with nothing between them.
TextContent(d, n) == TextFrom(d, n, Max(Subtree(d, n)))

-----------------------------------------------------------------------------
(* extractUpdatedDateFromCard.                                             *)

UpdatedWindowRun == 120
UpdatedWindowPart000 == 140

UpdatedWindow(v) ==
  IF v = "run" THEN UpdatedWindowRun ELSE UpdatedWindowPart000

\* Mutant of lastIndexOf: the first occurrence.
indexOf(s, w) ==
  LET hits == {i \in 1..Len(s) : s[i] = w}
  IN IF hits = {} THEN 0 ELSE Min(hits)

\* String.prototype.lastIndexOf for a word w that is a token of the text:
\* the index of its last occurrence, 0 (for -1) when there is none.
lastIndexOf(s, w) ==
  LET hits == {i \in 1..Len(s) : s[i] = w}
  IN IF hits = {} THEN 0 ELSE Max(hits)

\* The text the evaluate callback returns.
updatedText(v, d, cardEl) ==
  LET full == trim(CollapseWhitespace(TextContent(d, cardEl)))
      idx == lastIndexOf(toLowerCase(full), "updated")
  IN IF idx >= 1
     THEN TakeChars(SubSeq(full, idx, Len(full)), UpdatedWindow(v))
     ELSE full

\* extractUpdatedDateFromCard of the script v; NoText when it throws "Could
\* not find Updated date in card text".
extractUpdatedDateFromCard(v, d, cardEl) ==
  firstDateLike(updatedText(v, d, cardEl))

-----------------------------------------------------------------------------
(* The header dates: extractThreeHeaderDates of src/run.mjs, and           *)
(* extractThreeHeaderDatesFromCard and assert3UniqueDates of part_000.     *)

Range(f) == {f[i] : i \in DOMAIN f}

\* for (const m of matches) { if (!out.includes(v)) out.push(v);
\*                           if (out.length === n) break; }
RECURSIVE UniqUpTo(_, _, _)
UniqUpTo(ms, out, n) ==
  IF ms = <<>> \/ Len(out) = n THEN out
  ELSE UniqUpTo(Tail(ms),
                IF Head(ms) \in Range(out) THEN out ELSE Append(out, Head(ms)),
                n)

DateTriple(ds) ==
  [col1 |-> normalizeDateText(ds[1]), col2 |-> normalizeDateText(ds[2]),
   col3 |-> normalizeDateText(ds[3])]

\* table.querySelectorAll("thead th"), each th's textContent.
theadThs(nd) == IF nd.hasThead THEN nd.thead ELSE <<>>

looksLikeDate(t) == DateMatches(t) # <<>>

\* extractThreeHeaderDates of src/run.mjs; NoDates when it throws "Could not
\* extract 3 header dates from table".
extractThreeHeaderDates(d, tableEl) ==
  LET table == d[tableEl]
      ths == [i \in 1..Len(theadThs(table)) |-> trim(theadThs(table)[i])]
      dateCandidates == SelectSeq(ths, looksLikeDate)
      headerDates == SubSeq(dateCandidates, 1, Min({3, Len(dateCandidates)}))
      text == IF table.hasThead THEN Concat(table.thead) ELSE OwnText(table)
      matches == DateMatches(text)
      fallback == UniqUpTo([i \in 1..Len(matches) |-> trim(matches[i])],
                           <<>>, 3)
  IN IF Len(headerDates) = 3 THEN DateTriple(headerDates)
     ELSE IF Len(fallback) = 3 THEN DateTriple(fallback)
     ELSE NoDates

\* isBeforeTable: node.compareDocumentPosition(table) has the bit
\* DOCUMENT_POSITION_FOLLOWING, which is set when the table comes after the
\* node in document order, the table being inside the node included.
isBeforeTable(d, n, table) == n < table

\* The chunks collected by the TreeWalker from the card, from node n on.
RECURSIVE Chunks(_, _, _)
Chunks(d, n, table) ==
  IF n >= table THEN <<>>
  ELSE LET t == trim(CollapseWhitespace(TextContent(d, n)))
       IN (IF isBeforeTable(d, n, table) /\ t # <<>> /\ DateMatches(t) # <<>>
           THEN <<t>> ELSE <<>>)
          \o Chunks(d, n + 1, table)

\* extractThreeHeaderDatesFromCard of part_000; NoDates when it throws
\* "Could not extract 3 header dates from card".
extractThreeHeaderDatesFromCard(d, cardEl) ==
  LET table == querySelectorTable(d, cardEl)
      chunks == Chunks(d, cardEl, table)
      ms == Concat([i \in 1..Len(chunks) |-> DateMatches(chunks[i])])
      dates == IF table = NoNode THEN <<>>
               ELSE UniqUpTo([i \in 1..Len(ms) |->
                                CollapseWhitespace(trim(ms[i]))], <<>>, 3)
  IN IF Len(dates) # 3 THEN NoDates ELSE DateTriple(dates)

\* assert3UniqueDates of part_000: TRUE when it does not throw.
assert3UniqueDates(dt) ==
  Cardinality({normalizeDateText(dt.col1), normalizeDateText(dt.col2),
               normalizeDateText(dt.col3)}) = 3

-----------------------------------------------------------------------------
(* extractRatesFromTreasuryTable and extractRatesFromSofrTable.            *)

\* The rows the evaluate callback returns: the tbody rows that have at least
\* four td cells, with the trimmed text of the first four.
tableRows(nd) ==
  LET trs == SelectSeq(nd.rows, LAMBDA tr : Len(tr) >= 4)
  IN [i \in 1..Len(trs) |->
        [termLabel |-> trim(trs[i][1]), col1 |-> trim(trs[i][2]),
         col2 |-> trim(trs[i][3]), col3 |-> trim(trs[i][4])]]

\* Mutant of FoldRow: the row is recorded as soon as its first value parses.
FoldRowFirstValueOnly(m, key, r) ==
  LET c1 == parsePercentToNumber(r.col1)
      c2 == parsePercentToNumber(r.col2)
      c3 == parsePercentToNumber(r.col3)
  IN IF key = NullStr THEN m
     ELSE IF c1 = Null THEN m
     ELSE [m EXCEPT ![key] = [col1 |-> c1, col2 |-> c2, col3 |-> c3]]

\* Mutant of FoldRow: a row with a value that does not parse removes what
\* its key held.
FoldRowErasing(m, key, r) ==
  LET c1 == parsePercentToNumber(r.col1)
      c2 == parsePercentToNumber(r.col2)
      c3 == parsePercentToNumber(r.col3)
  IN IF key = NullStr THEN m
     ELSE IF c1 = Null \/ c2 = Null \/ c3 = Null
     THEN [m EXCEPT ![key] = Absent]
     ELSE [m EXCEPT ![key] = [col1 |-> c1, col2 |-> c2, col3 |-> c3]]

\* The body of the for..of loop over the rows, for the row r whose label
\* mapKey took to key.
FoldRow(m, key, r) ==
  LET c1 == parsePercentToNumber(r.col1)
      c2 == parsePercentToNumber(r.col2)
      c3 == parsePercentToNumber(r.col3)
  IN IF key = NullStr THEN m
     ELSE IF c1 = Null \/ c2 = Null \/ c3 = Null THEN m
     ELSE [m EXCEPT ![key] = [col1 |-> c1, col2 |-> c2, col3 |-> c3]]

TreasuryRequired == <<"1y", "2y", "3y", "5y", "7y", "10y", "30y">>
SofrRequired == <<"sofr", "30d-avg", "90d-avg", "1m-term", "3m-term">>

\* Mutant of FirstMissing: the loop over required is left out.
NoneMissing(m, required) == NullStr

\* Mutant of FirstMissing: the throw names the last key that is absent.
LastMissing(m, required) ==
  LET gone == {i \in 1..Len(required) : m[required[i]] = Absent}
  IN IF gone = {} THEN NullStr
     ELSE required[CHOOSE i \in gone : \A j \in gone : i >= j]

\* for (const k of required) if (!m[k]) throw ...: the key the throw names,
\* NullStr when the loop ends without a throw.
RECURSIVE FirstMissing(_, _)
FirstMissing(m, required) ==
  IF required = <<>> THEN NullStr
  ELSE IF m[Head(required)] = Absent THEN Head(required)
  ELSE FirstMissing(m, Tail(required))

-----------------------------------------------------------------------------
(* Function-level harness for findCardRootByHeading: a heading below a     *)
(* chain of containers, with up to two tables hanging off the chain, one   *)
(* of them before the heading in document order.                           *)

MaxChain == 25        \* containers above the heading

NoTable == Table(1, FALSE, <<>>, <<>>)

\* k containers at depths 0..k-1 (a table at depth pre, if pre > 0, right
\* before the container of that depth), the heading at depth k, then a table
\* at each depth of posts.
ChainDoc(k, pre, posts) ==
  LET chain == [i \in 1..k |-> Div(i - 1)]
      upper == IF pre = 0 THEN chain
               ELSE SubSeq(chain, 1, pre) \o <<[NoTable EXCEPT !.depth = pre]>>
                    \o SubSeq(chain, pre + 1, k)
  IN upper \o <<El(k, <<HeadingT>>)>>
     \o [i \in 1..Len(posts) |-> [NoTable EXCEPT !.depth = posts[i]]]

\* Short chains, and chains about as long as the climb of 24 levels.
ChainDepths == (0..4) \cup ((MaxChain - 3)..MaxChain)

\* No table, one table, or two: one after the heading at any depth, with a
\* second one before the chain, beside the heading, at the same depth or
\* below the root.
ChainDocs ==
  UNION { {ChainDoc(k, pre, <<>>) : pre \in {0, 1, k} \cap (0..k)}
          \cup {ChainDoc(k, pre, <<t>>) : pre \in {0, 1, k}, t \in 1..k}
          \cup {ChainDoc(k, 0, <<t, 1>>) : t \in 1..k}
          \cup {ChainDoc(k, 0, <<t, t>>) : t \in 1..k}
          : k \in ChainDepths }

InitCard ==
  /\ pc = "call" /\ variant \in {"run", "part000"} /\ arg = <<>>
  /\ ret = NoNode
  /\ doc \in ChainDocs
  /\ Frame

CallFindCardRoot ==
  /\ pc = "call"
  /\ ret' = findCardRootByHeading(variant, doc, HeadingT)
  /\ pc' = "return"
  /\ UNCHANGED <<variant, arg, env, doc, treasuryCard, sofrCard,
                 treasuryTable, sofrTable, treasury_dates, sofr_dates,
                 treasuryUpdated, sofrUpdated, rowIdx, treasury, sofr,
                 posted, err, exitCode, res>>

SpecCard == InitCard /\ [][CallFindCardRoot]_vars

-----------------------------------------------------------------------------
(* Function-level harness for extractUpdatedDateFromCard: a card whose     *)
(* children are footer-like elements, each holding one segment of text.    *)

MaxSegs == 3          \* elements of an enumerated card

Filler101 ==
  "aaaaaaaaaaaaaaaaaaaaaaaaaaaaaaaaaaaaaaaaaaaaaaaaaaaaaaaaaaaaaaaaaaaaaaaaaaaaaaaaaaaaaaaaaaaaaaaaaaaaa"
Filler19 == "bbbbbbbbbbbbbbbbbbb"

\* With "Updated" at offset 0: "9 Jan 2026" after Filler101 ends at
\* character 120 and "21 Jan 2026" at 121; after Filler101 and Filler19 they
\* end at 140 and 141.
Segments ==
  { <<" ">>,
    <<"2 Jan 2026">>,
    <<"Updated", " ", "21 Jan 2026", " ", "|">>,
    <<"UPDATED", ":", " ", "16 Jan 2026">>,
    <<"updated", " ", "soon">>,
    <<"Updated", " ", Filler101, " ", "9 Jan 2026">>,
    <<"Updated", " ", Filler101, " ", "21 Jan 2026">>,
    <<"Updated", "\n", "\n", Filler101, " ", Filler19, " ", "9  Jan 2026">>,
    <<"Updated", " ", Filler101, " ", Filler19, " ", "21 Jan 2026">> }

SegDoc(segs) == <<Div(0)>> \o [i \in 1..Len(segs) |-> El(1, segs[i])]

InitUpdated ==
  /\ pc = "call" /\ variant \in {"run", "part000"} /\ arg = <<>>
  /\ ret = NoText
  /\ doc \in {SegDoc(segs) : segs \in SeqsUpTo(Segments, MaxSegs)}
  /\ Frame

CallUpdated ==
  /\ pc = "call"
  /\ ret' = extractUpdatedDateFromCard(variant, doc, 1)
  /\ pc' = "return"
  /\ UNCHANGED <<variant, arg, env, doc, treasuryCard, sofrCard,
                 treasuryTable, sofrTable, treasury_dates, sofr_dates,
                 treasuryUpdated, sofrUpdated, rowIdx, treasury, sofr,
                 posted, err, exitCode, res>>

SpecUpdated == InitUpdated /\ [][CallUpdated]_vars

-----------------------------------------------------------------------------
(* Function-level harness for the header dates: a card that holds its      *)
(* heading, some elements of free text, its table and maybe a footer.      *)

MaxPre == 3           \* elements between the heading and the table

PreSegs ==
  { <<"16 Jan 2026">>,
    <<"9 Jan 2026", " ">>,
    <<" ", "2 Jan 2026">>,
    <<"|">>,
    <<"As of", " ", "16 Jan 2026", " ", "9  Jan 2026", "\n", "2 Jan 2026",
      " ">> }

ValueRow(label, body) ==
  <<label, <<"4", ".", "2", "5", "%">>, body, <<"4", ".", "1", "0", "%">>>>

\* Tables without header dates (the second one with a date in its body),
\* and tables with a thead of three distinct, or of repeated, dates.
DateTables ==
  { Table(1, FALSE, <<>>, <<ValueRow(<<"1", " ", "Y", "e", "a", "r">>, <<"4", ".", "2", "%">>)>>),
    Table(1, FALSE, <<>>, <<ValueRow(<<"1", " ", "Y", "e", "a", "r">>, <<"2 Jan 2026">>)>>),
    Table(1, TRUE, <<(<<"Term">>), <<"16 Jan 2026">>, <<" ", "9 Jan 2026", " ">>,
                     <<"2 Jan 2026">>>>,
          <<ValueRow(<<"1", " ", "Y", "e", "a", "r">>, <<"4", ".", "2", "%">>)>>),
    Table(1, TRUE, <<(<<"Term">>), <<"16 Jan 2026">>, <<" ", "16 Jan 2026">>,
                     <<"9 Jan 2026">>>>,
          <<ValueRow(<<"1", " ", "Y", "e", "a", "r">>, <<"4", ".", "2", "%">>)>>) }

Footers == {<<>>, <<El(1, <<"Updated", " ", "21 Jan 2026", " ", "|">>)>>}

CardDoc(pres, tbl, footer) ==
  <<Div(0), El(1, <<HeadingT>>)>>
  \o [i \in 1..Len(pres) |-> El(1, pres[i])] \o <<tbl>> \o footer

InitDates ==
  /\ pc = "call" /\ variant \in {"run", "part000"} /\ arg = <<>>
  /\ ret = NoDates
  /\ doc \in {CardDoc(pres, tbl, footer) :
                pres \in SeqsUpTo(PreSegs, MaxPre), tbl \in DateTables,
                footer \in Footers}
  /\ Frame

CallDates ==
  /\ pc = "call"
  /\ ret' = IF variant = "run"
            THEN extractThreeHeaderDates(doc, findTableWithin(doc, 1))
            ELSE extractThreeHeaderDatesFromCard(doc, 1)
  /\ pc' = "return"
  /\ UNCHANGED <<variant, arg, env, doc, treasuryCard, sofrCard,
                 treasuryTable, sofrTable, treasury_dates, sofr_dates,
                 treasuryUpdated, sofrUpdated, rowIdx, treasury, sofr,
                 posted, err, exitCode, res>>

SpecDates == InitDates /\ [][CallDates]_vars

-----------------------------------------------------------------------------
(* The run of the script: the checks of the environment at module level,   *)
(* then main, one action for each await (one for each row of the two row   *)
(* loops), and the handler of main().catch.                                *)

\* throw new Error(msg) inside main: the promise rejects.
Throw(msg) == err' = msg /\ pc' = "catch"

\* Mutant of CheckEnv: only RATES_ENDPOINT is checked.
CheckEnvEndpointOnly ==
  /\ pc = "start"
  /\ LET missing == IF ~env.RATES_ENDPOINT THEN "RATES_ENDPOINT"
                    ELSE NullStr
     IN IF missing # NullStr
        THEN err' = "Missing env: " \o missing /\ exitCode' = 1
             /\ pc' = "exited"
        ELSE err' = err /\ exitCode' = exitCode /\ pc' = "launch"
  /\ UNCHANGED <<variant, arg, ret, env, doc, treasuryCard, sofrCard,
                 treasuryTable, sofrTable, treasury_dates, sofr_dates,
                 treasuryUpdated, sofrUpdated, rowIdx, treasury, sofr,
                 posted, res>>

\* The three checks of process.env; a throw at module level ends the
\* process with exit code 1 before main is called.
CheckEnv ==
  /\ pc = "start"
  /\ LET missing == IF ~env.RATES_ENDPOINT THEN "RATES_ENDPOINT"
                    ELSE IF ~env.RATES_API_TOKEN THEN "RATES_API_TOKEN"
                    ELSE IF ~env.RATES_SOURCE_URL THEN "RATES_SOURCE_URL"
                    ELSE NullStr
     IN IF missing # NullStr
        THEN err' = "Missing env: " \o missing /\ exitCode' = 1
             /\ pc' = "exited"
        ELSE err' = err /\ exitCode' = exitCode /\ pc' = "launch"
  /\ UNCHANGED <<variant, arg, ret, env, doc, treasuryCard, sofrCard,
                 treasuryTable, sofrTable, treasury_dates, sofr_dates,
                 treasuryUpdated, sofrUpdated, rowIdx, treasury, sofr,
                 posted, res>>

\* chromium.launch, browser.newPage, page.setViewportSize
Launch ==
  /\ pc = "launch"
  /\ pc' = "goto" /\ err' = err
  /\ UNCHANGED <<variant, arg, ret, env, doc, treasuryCard, sofrCard,
                 treasuryTable, sofrTable, treasury_dates, sofr_dates,
                 treasuryUpdated, sofrUpdated, rowIdx, treasury, sofr,
                 posted, exitCode, res>>

\* page.goto with waitUntil "networkidle" and a timeout of 60000 ms, then
\* page.waitForTimeout(1500).
Goto ==
  /\ pc = "goto"
  /\ \E settled \in BOOLEAN :
       IF settled THEN pc' = "treasuryCard" /\ err' = err
       ELSE Throw("page.goto: Timeout 60000ms exceeded")
  /\ UNCHANGED <<variant, arg, ret, env, doc, treasuryCard, sofrCard,
                 treasuryTable, sofrTable, treasury_dates, sofr_dates,
                 treasuryUpdated, sofrUpdated, rowIdx, treasury, sofr,
                 posted, exitCode, res>>

\* findCardRootByHeading(page, headingText) in main; heading.waitFor times
\* out after 30000 ms when no element holds the heading.
FindCard(headingText) ==
  IF locatorFirst(doc, headingText) = NoNode THEN NoNode
  ELSE findCardRootByHeading(variant, doc, headingText)

CardError(headingText) ==
  IF locatorFirst(doc, headingText) = NoNode
  THEN "locator.waitFor: Timeout 30000ms exceeded"
  ELSE "Could not find card root for heading: " \o headingText

\* const treasuryCard = await findCardRootByHeading(page, "U.S. Treasuries")
FindTreasuryCard ==
  /\ pc = "treasuryCard"
  /\ LET v == FindCard(HeadingT)
     IN IF v = NoNode
        THEN Throw(CardError(HeadingT)) /\ UNCHANGED treasuryCard
        ELSE treasuryCard' = v /\ pc' = "sofrCard" /\ err' = err
  /\ UNCHANGED <<variant, arg, ret, env, doc, sofrCard, treasuryTable,
                 sofrTable, treasury_dates, sofr_dates, treasuryUpdated,
                 sofrUpdated, rowIdx, treasury, sofr, posted, exitCode, res>>

\* const sofrCard = await findCardRootByHeading(page, "Secured ... (SOFR)")
FindSofrCard ==
  /\ pc = "sofrCard"
  /\ LET v == FindCard(HeadingS)
     IN IF v = NoNode
        THEN Throw(CardError(HeadingS)) /\ UNCHANGED sofrCard
        ELSE sofrCard' = v /\ pc' = "treasuryTable" /\ err' = err
  /\ UNCHANGED <<variant, arg, ret, env, doc, treasuryCard, treasuryTable,
                 sofrTable, treasury_dates, sofr_dates, treasuryUpdated,
                 sofrUpdated, rowIdx, treasury, sofr, posted, exitCode, res>>

\* const treasuryTable = await findTableWithin(treasuryCard)
FindTreasuryTable ==
  /\ pc = "treasuryTable"
  /\ LET v == findTableWithin(doc, treasuryCard)
     IN IF v = NoNode
        THEN Throw("Could not find table inside card") /\ UNCHANGED treasuryTable
        ELSE treasuryTable' = v /\ pc' = "sofrTable" /\ err' = err
  /\ UNCHANGED <<variant, arg, ret, env, doc, treasuryCard, sofrCard,
                 sofrTable, treasury_dates, sofr_dates, treasuryUpdated,
                 sofrUpdated, rowIdx, treasury, sofr, posted, exitCode, res>>

\* const sofrTable = await findTableWithin(sofrCard)
FindSofrTable ==
  /\ pc = "sofrTable"
  /\ LET v == findTableWithin(doc, sofrCard)
     IN IF v = NoNode
        THEN Throw("Could not find table inside card") /\ UNCHANGED sofrTable
        ELSE sofrTable' = v /\ pc' = "treasuryDates" /\ err' = err
  /\ UNCHANGED <<variant, arg, ret, env, doc, treasuryCard, sofrCard,
                 treasuryTable, treasury_dates, sofr_dates, treasuryUpdated,
                 sofrUpdated, rowIdx, treasury, sofr, posted, exitCode, res>>

\* extractThreeHeaderDates(table) in src/run.mjs,
\* extractThreeHeaderDatesFromCard(card) in part_000.
HeaderDates(tableEl, cardEl) ==
  IF variant = "run" THEN extractThreeHeaderDates(doc, tableEl)
  ELSE extractThreeHeaderDatesFromCard(doc, cardEl)

HeaderDatesError ==
  IF variant = "run" THEN "Could not extract 3 header dates from table"
  ELSE "Could not extract 3 header dates from card"

\* const treasury_dates = await extractThreeHeaderDates...(...)
TreasuryDates ==
  /\ pc = "treasuryDates"
  /\ LET v == HeaderDates(treasuryTable, treasuryCard)
     IN IF v = NoDates
        THEN Throw(HeaderDatesError) /\ UNCHANGED treasury_dates
        ELSE treasury_dates' = v /\ pc' = "sofrDates" /\ err' = err
  /\ UNCHANGED <<variant, arg, ret, env, doc, treasuryCard, sofrCard,
                 treasuryTable, sofrTable, sofr_dates, treasuryUpdated,
                 sofrUpdated, rowIdx, treasury, sofr, posted, exitCode, res>>

\* const sofr_dates = await extractThreeHeaderDates...(...)
SofrDates ==
  /\ pc = "sofrDates"
  /\ LET v == HeaderDates(sofrTable, sofrCard)
     IN IF v = NoDates
        THEN Throw(HeaderDatesError) /\ UNCHANGED sofr_dates
        ELSE sofr_dates' = v /\ pc' = (IF variant = "run" THEN "treasuryUpdated"
                                     ELSE "assertDates") /\ err' = err
  /\ UNCHANGED <<variant, arg, ret, env, doc, treasuryCard, sofrCard,
                 treasuryTable, sofrTable, treasury_dates, treasuryUpdated,
                 sofrUpdated, rowIdx, treasury, sofr, posted, exitCode, res>>

\* assert3UniqueDates("Treasury", treasury_dates);
\* assert3UniqueDates("SOFR", sofr_dates): part_000 only.
AssertDates ==
  /\ pc = "assertDates"
  /\ IF ~assert3UniqueDates(treasury_dates)
     THEN Throw("Treasury header dates are not 3 unique values")
     ELSE IF ~assert3UniqueDates(sofr_dates)
     THEN Throw("SOFR header dates are not 3 unique values")
     ELSE pc' = "treasuryUpdated" /\ err' = err
  /\ UNCHANGED <<variant, arg, ret, env, doc, treasuryCard, sofrCard,
                 treasuryTable, sofrTable, treasury_dates, sofr_dates,
                 treasuryUpdated, sofrUpdated, rowIdx, treasury, sofr,
                 posted, exitCode, res>>

UpdatedError == "Could not find Updated date in card text"

\* const treasuryUpdated = await extractUpdatedDateFromCard(treasuryCard)
TreasuryUpdated ==
  /\ pc = "treasuryUpdated"
  /\ LET v == extractUpdatedDateFromCard(variant, doc, treasuryCard)
     IN IF v = NoText
        THEN Throw(UpdatedError) /\ UNCHANGED treasuryUpdated
        ELSE treasuryUpdated' = v /\ pc' = "sofrUpdated" /\ err' = err
  /\ UNCHANGED <<variant, arg, ret, env, doc, treasuryCard, sofrCard,
                 treasuryTable, sofrTable, treasury_dates, sofr_dates,
                 sofrUpdated, rowIdx, treasury, sofr, posted, exitCode, res>>

\* const sofrUpdated = await extractUpdatedDateFromCard(sofrCard)
SofrUpdated ==
  /\ pc = "sofrUpdated"
  /\ LET v == extractUpdatedDateFromCard(variant, doc, sofrCard)
     IN IF v = NoText
        THEN Throw(UpdatedError) /\ UNCHANGED sofrUpdated
        ELSE sofrUpdated' = v /\ pc' = "treasuryRows" /\ err' = err
  /\ UNCHANGED <<variant, arg, ret, env, doc, treasuryCard, sofrCard,
                 treasuryTable, sofrTable, treasury_dates, sofr_dates,
                 treasuryUpdated, rowIdx, treasury, sofr, posted, exitCode,
                 res>>

\* One iteration of the loop over the rows of the Treasury table.
TreasuryRow ==
  /\ pc = "treasuryRows"
  /\ rowIdx <= Len(tableRows(doc[treasuryTable]))
  /\ LET r == tableRows(doc[treasuryTable])[rowIdx]
     IN treasury' = FoldRow(treasury, mapKeyTreasury(r.termLabel), r)
  /\ rowIdx' = rowIdx + 1
  /\ pc' = pc /\ err' = err
  /\ UNCHANGED <<variant, arg, ret, env, doc, treasuryCard, sofrCard,
                 treasuryTable, sofrTable, treasury_dates, sofr_dates,
                 treasuryUpdated, sofrUpdated, sofr, posted, exitCode, res>>

\* The loop over required that ends extractRatesFromTreasuryTable.
TreasuryRequiredKeys ==
  /\ pc = "treasuryRows"
  /\ rowIdx > Len(tableRows(doc[treasuryTable]))
  /\ LET k == FirstMissing(treasury, TreasuryRequired)
     IN IF k # NullStr
        THEN Throw("Missing treasury row for term_key: " \o k)
             /\ UNCHANGED rowIdx
        ELSE pc' = "sofrRows" /\ rowIdx' = 1 /\ err' = err
  /\ UNCHANGED <<variant, arg, ret, env, doc, treasuryCard, sofrCard,
                 treasuryTable, sofrTable, treasury_dates, sofr_dates,
                 treasuryUpdated, sofrUpdated, treasury, sofr, posted,
                 exitCode, res>>

\* One iteration of the loop over the rows of the SOFR table.
SofrRow ==
  /\ pc = "sofrRows"
  /\ rowIdx <= Len(tableRows(doc[sofrTable]))
  /\ LET r == tableRows(doc[sofrTable])[rowIdx]
     IN sofr' = FoldRow(sofr, mapKeySofr(r.termLabel), r)
  /\ rowIdx' = rowIdx + 1
  /\ pc' = pc /\ err' = err
  /\ UNCHANGED <<variant, arg, ret, env, doc, treasuryCard, sofrCard,
                 treasuryTable, sofrTable, treasury_dates, sofr_dates,
                 treasuryUpdated, sofrUpdated, treasury, posted, exitCode,
                 res>>

\* The loop over required that ends extractRatesFromSofrTable.
SofrRequiredKeys ==
  /\ pc = "sofrRows"
  /\ rowIdx > Len(tableRows(doc[sofrTable]))
  /\ LET k == FirstMissing(sofr, SofrRequired)
     IN IF k # NullStr
        THEN Throw("Missing SOFR row for term_key: " \o k)
        ELSE pc' = "post" /\ err' = err
  /\ UNCHANGED <<variant, arg, ret, env, doc, treasuryCard, sofrCard,
                 treasuryTable, sofrTable, treasury_dates, sofr_dates,
                 treasuryUpdated, sofrUpdated, rowIdx, treasury, sofr,
                 posted, exitCode, res>>

payload ==
  [dates |-> [treasury |-> treasuryUpdated, sofr |-> sofrUpdated],
   treasury_dates |-> treasury_dates, sofr_dates |-> sofr_dates,
   treasury |-> treasury, sofr |-> sofr]

\* fetch(RATES_ENDPOINT, {method: "POST", ..., body: JSON.stringify(payload)})
Post ==
  /\ pc = "post"
  /\ posted' = Append(posted, payload)
  /\ pc' = "response" /\ err' = err
  /\ UNCHANGED <<variant, arg, ret, env, doc, treasuryCard, sofrCard,
                 treasuryTable, sofrTable, treasury_dates, sofr_dates,
                 treasuryUpdated, sofrUpdated, rowIdx, treasury, sofr,
                 exitCode, res>>

\* What the endpoint may answer.
Responses ==
  { [status |-> 200, text |-> "{\"ok\":true}"],
    [status |-> 204, text |-> ""],
    [status |-> 401, text |-> "invalid token"],
    [status |-> 500, text |-> "Internal Server Error"] }

\* Response.ok: the status is in the range 200-299.
ResponseOk(r) == r.status >= 200 /\ r.status <= 299

\* Mutant of EdgeFunctionError: the body of the response is left out.
EdgeFunctionErrorNoBody(r) == "Edge function error " \o ToString(r.status)

\* `Edge function error ${res.status}: ${text}`
EdgeFunctionError(r) ==
  "Edge function error " \o ToString(r.status) \o ": " \o r.text

\* The promise of fetch settles: it rejects (the request failed), or it
\* gives a response, whose text is read; a status that is not a success
\* throws, a success is logged, the browser is closed and the process ends.
Response ==
  /\ pc = "response"
  /\ \/ /\ Throw("fetch failed")
        /\ UNCHANGED <<res, exitCode>>
     \/ \E r \in Responses :
          /\ res' = r
          /\ IF ~ResponseOk(r)
             THEN Throw(EdgeFunctionError(r)) /\ UNCHANGED exitCode
             ELSE pc' = "exited" /\ exitCode' = 0 /\ err' = err
  /\ UNCHANGED <<variant, arg, ret, env, doc, treasuryCard, sofrCard,
                 treasuryTable, sofrTable, treasury_dates, sofr_dates,
                 treasuryUpdated, sofrUpdated, rowIdx, treasury, sofr,
                 posted>>

\* main().catch: console.error("FAILED:", err); process.exit(1)
Catch ==
  /\ pc = "catch"
  /\ exitCode' = 1 /\ pc' = "exited" /\ err' = err
  /\ UNCHANGED <<variant, arg, ret, env, doc, treasuryCard, sofrCard,
                 treasuryTable, sofrTable, treasury_dates, sofr_dates,
                 treasuryUpdated, sofrUpdated, rowIdx, treasury, sofr,
                 posted, res>>

Next ==
  \/ CheckEnv \/ Launch \/ Goto
  \/ FindTreasuryCard \/ FindSofrCard \/ FindTreasuryTable \/ FindSofrTable
  \/ TreasuryDates \/ SofrDates \/ AssertDates
  \/ TreasuryUpdated \/ SofrUpdated
  \/ TreasuryRow \/ TreasuryRequiredKeys \/ SofrRow \/ SofrRequiredKeys
  \/ Post \/ Response \/ Catch

\* The pages a run may load.  A page has the two headings, each with its
\* table and its "Updated" footer, laid out as two cards, flat under one
\* container, or with the headings wrapped; or it lacks a heading, its
\* tables or a footer.  Tables differ in their thead and in their rows.

Pct(a, b) == <<a, ".", b, "%">>

TreasuryRowOf(n) ==
  <<n \o <<" ", "Y", "e", "a", "r">>, Pct("4", "1"), Pct("4", "2"),
    Pct("4", "3")>>

GoodTreasuryRows ==
  <<TreasuryRowOf(<<"1">>), TreasuryRowOf(<<"2">>), TreasuryRowOf(<<"3">>),
    TreasuryRowOf(<<"5">>), TreasuryRowOf(<<"7">>),
    TreasuryRowOf(<<"1", "0">>), TreasuryRowOf(<<"3", "0">>)>>

NotANumber == <<"N", "/", "A">>

\* What the row of the 2 Year term may be instead of the good row.
TwoYearRows ==
  { <<TreasuryRowOf(<<"2">>)>>,
    <<>>,
    <<TreasuryRowOf(<<"2", "0">>)>>,
    <<[TreasuryRowOf(<<"2">>) EXCEPT ![2] = NotANumber]>>,
    <<[TreasuryRowOf(<<"2">>) EXCEPT ![3] = NotANumber]>>,
    <<[TreasuryRowOf(<<"2">>) EXCEPT ![4] = NotANumber]>>,
    <<[TreasuryRowOf(<<"2">>) EXCEPT ![3] = <<>>]>>,
    <<SubSeq(TreasuryRowOf(<<"2">>), 1, 3)>>,
    <<TreasuryRowOf(<<"2">>),
      [TreasuryRowOf(<<"2">>) EXCEPT ![2] = NotANumber, ![3] = Pct("9", "9")]>>,
    <<[TreasuryRowOf(<<"2">>) EXCEPT ![4] = NotANumber],
      [TreasuryRowOf(<<"2">>) EXCEPT ![2] = Pct("3", "9")]>> }

TreasuryBodies ==
  {<<GoodTreasuryRows[1]>> \o two \o SubSeq(GoodTreasuryRows, 3, 7) :
     two \in TwoYearRows}

SofrRowOf(label) == <<label, Pct("5", "1"), Pct("5", "2"), Pct("5", "3")>>

SofrLabel == <<"S", "O", "F", "R">>
Average == <<"A", "v", "e", "r", "a", "g", "e">>
Term == <<"T", "e", "r", "m">>

GoodSofrRows ==
  <<SofrRowOf(SofrLabel),
    SofrRowOf(<<"3", "0", "-", "D", "a", "y", " ">> \o Average),
    SofrRowOf(<<"9", "0", "-", "D", "a", "y", " ">> \o Average),
    SofrRowOf(<<"1", "-", "M", "o", "n", "t", "h", " ">> \o Term),
    SofrRowOf(<<"3", "-", "M", "o", "n", "t", "h", " ">> \o Term)>>

SofrBodies ==
  { GoodSofrRows,
    SubSeq(GoodSofrRows, 1, 2) \o SubSeq(GoodSofrRows, 4, 5),
    [GoodSofrRows EXCEPT ![4][4] = NotANumber],
    [GoodSofrRows EXCEPT ![1][1] = <<" ", "s", "o", "f", "r", " ">>] }

\* The th cells: three distinct dates, a repeated date, the dates inside
\* longer cells, or no thead at all (hasThead is then FALSE).
GoodThead ==
  <<(<<"Term">>), <<" ", "16 Jan 2026", " ">>, <<" ", "9 Jan 2026", " ">>,
    <<" ", "2 Jan 2026", " ">>>>

Theads ==
  { GoodThead,
    <<(<<"Term">>), <<"16 Jan 2026">>, <<"16 Jan 2026">>, <<"9 Jan 2026">>>>,
    <<(<<"Term">>), <<"As of", " ", "16 Jan 2026">>, <<"9  Jan 2026">>,
      <<"2 Jan 2026">>>>,
    <<>> }

TableOf(depth, thead, rows) == Table(depth, thead # <<>>, thead, rows)

FooterT == <<"Updated", " ", "21 Jan 2026", " ", "|", " ", "ET">>
FooterS == <<"Updated", " ", "16 Jan 2026">>

\* The free text above a table: nothing, or the three dates of its columns.
PreTexts == {<<>>, <<(<<"16 Jan 2026", " ">>), <<"9 Jan 2026", " ">>,
                      <<"2 Jan 2026", " ">>>>}

PreEls(depth, pre) == [i \in 1..Len(pre) |-> El(depth, pre[i])]

Layouts == {"cards", "flat", "wrapped", "noSofrHeading", "noTables",
            "noFooter"}

Page(layout, pre, tT, tS) ==
  CASE layout = "cards" ->
         <<Div(0), Div(1), El(2, <<HeadingT>>)>> \o PreEls(2, pre)
         \o <<[tT EXCEPT !.depth = 2], El(2, FooterT), Div(1),
              El(2, <<HeadingS>>)>> \o PreEls(2, pre)
         \o <<[tS EXCEPT !.depth = 2], El(2, FooterS)>>
    [] layout = "flat" ->
         <<Div(0), El(1, <<HeadingT>>)>> \o PreEls(1, pre)
         \o <<tT, El(1, FooterT), El(1, <<HeadingS>>)>> \o PreEls(1, pre)
         \o <<tS, El(1, FooterS)>>
    [] layout = "wrapped" ->
         <<Div(0), Div(1), Div(2), El(3, <<HeadingT>>)>> \o PreEls(2, pre)
         \o <<[tT EXCEPT !.depth = 2], El(2, FooterT), Div(1), Div(2),
              El(3, <<HeadingS>>)>> \o PreEls(2, pre)
         \o <<[tS EXCEPT !.depth = 2], El(2, FooterS)>>
    [] layout = "noSofrHeading" ->
         <<Div(0), Div(1), El(2, <<HeadingT>>)>> \o PreEls(2, pre)
         \o <<[tT EXCEPT !.depth = 2], El(2, FooterT), Div(1),
              El(2, <<"SOFR">>), [tS EXCEPT !.depth = 2], El(2, FooterS)>>
    [] layout = "noTables" ->
         <<Div(0), Div(1), El(2, <<HeadingT>>), El(2, FooterT), Div(1),
           El(2, <<HeadingS>>), El(2, FooterS)>>
    [] layout = "noFooter" ->
         <<Div(0), Div(1), El(2, <<HeadingT>>)>> \o PreEls(2, pre)
         \o <<[tT EXCEPT !.depth = 2], Div(1), El(2, <<HeadingS>>)>>
         \o PreEls(2, pre) \o <<[tS EXCEPT !.depth = 2], El(2, FooterS)>>

\* One table is varied at a time: its thead and its rows in the layout of
\* two cards, its thead alone in the other layouts.
TablePairs ==
  {<<TableOf(1, th, rows), TableOf(1, GoodThead, GoodSofrRows)>> :
     th \in Theads, rows \in TreasuryBodies}
  \cup {<<TableOf(1, GoodThead, GoodTreasuryRows), TableOf(1, th, rows)>> :
          th \in Theads, rows \in SofrBodies}

TheadPairs ==
  {tt \in TablePairs : tt[1].rows = GoodTreasuryRows /\ tt[2].rows = GoodSofrRows}

Reverse(s) == [i \in 1..Len(s) |-> s[Len(s) + 1 - i]]

Without(rows, gone) == SelectSeq(rows, LAMBDA r : r \notin gone)

\* Tables whose rows come in the reverse order of the required keys and
\* that lack several keys (no 2 Year and 5 Year rows; no 3 Year row and a
\* 10 Year row that does not parse; no 30-Day and 1-Month rows), alone and
\* together.
ReversedTreasuryBodies ==
  { Reverse(GoodTreasuryRows),
    Without(Reverse(GoodTreasuryRows),
            {GoodTreasuryRows[2], GoodTreasuryRows[4]}),
    Without(Reverse([GoodTreasuryRows EXCEPT ![6][3] = NotANumber]),
            {GoodTreasuryRows[3]}) }

ReversedSofrBodies ==
  { Reverse(GoodSofrRows),
    Without(Reverse(GoodSofrRows), {GoodSofrRows[2], GoodSofrRows[4]}) }

ReversedPairs ==
  {<<TableOf(1, GoodThead, tr), TableOf(1, GoodThead, sr)>> :
     tr \in ReversedTreasuryBodies, sr \in ReversedSofrBodies}

Pages ==
  {Page("cards", pre, tt[1], tt[2]) :
     pre \in PreTexts, tt \in TablePairs \cup ReversedPairs}
  \cup {Page(layout, pre, tt[1], tt[2]) :
          layout \in Layouts, pre \in PreTexts, tt \in TheadPairs}

BasePage ==
  Page("cards", <<>>, TableOf(1, GoodThead, GoodTreasuryRows),
       TableOf(1, GoodThead, GoodSofrRows))

AllSet ==
  [RATES_ENDPOINT |-> TRUE, RATES_API_TOKEN |-> TRUE, RATES_SOURCE_URL |-> TRUE]

Init ==
  /\ pc = "start" /\ variant \in {"run", "part000"}
  /\ arg = <<>> /\ ret = NoNode
  /\ \/ env = AllSet /\ doc \in Pages
     \/ /\ env \in [{"RATES_ENDPOINT", "RATES_API_TOKEN", "RATES_SOURCE_URL"}
                     -> BOOLEAN] \ {AllSet}
        /\ doc = BasePage
  /\ Locals

Spec == Init /\ [][Next]_vars

\* The steps the script takes by itself.  page.goto and heading.waitFor are
\* given timeouts (60000 and 30000 ms), so Goto and the FindCard steps are
\* always taken in the end; the call of fetch is given no timeout and no
\* AbortSignal, so nothing in the script makes Response happen.
ScriptStep ==
  \/ CheckEnv \/ Launch \/ Goto
  \/ FindTreasuryCard \/ FindSofrCard \/ FindTreasuryTable \/ FindSofrTable
  \/ TreasuryDates \/ SofrDates \/ AssertDates
  \/ TreasuryUpdated \/ SofrUpdated
  \/ TreasuryRow \/ TreasuryRequiredKeys \/ SofrRow \/ SofrRequiredKeys
  \/ Post \/ Catch

\* The runs whose termination is examined: on a complete page with and
\* without the dates above the tables, and on a page where the SOFR heading
\* never appears.
LivePages ==
  {Page(layout, pre, TableOf(1, GoodThead, GoodTreasuryRows),
        TableOf(1, GoodThead, GoodSofrRows)) :
     layout \in {"cards", "noSofrHeading"}, pre \in PreTexts}

LiveInit ==
  /\ pc = "start" /\ variant \in {"run", "part000"}
  /\ arg = <<>> /\ ret = NoNode
  /\ env = AllSet /\ doc \in LivePages
  /\ Locals

\* The positions of main and of the catch handler.
Positions ==
  {"start", "launch", "goto", "treasuryCard", "sofrCard", "treasuryTable",
   "sofrTable", "treasuryDates", "sofrDates", "assertDates",
   "treasuryUpdated", "sofrUpdated", "treasuryRows", "sofrRows", "post",
   "response", "catch", "exited"}

\* The script moves on from where it is.  Every step of ScriptStep starts at
\* a position other than "response" and "exited" and changes pc or rowIdx,
\* and every such position has a step, so that Advance is enabled exactly
\* where ScriptStep is and the Next steps that are Advance steps are the
\* ScriptStep steps (AdvanceIsScriptStep).
Advance ==
  /\ pc \notin {"response", "exited"}
  /\ pc' \in Positions
  /\ rowIdx' \in {1, rowIdx, rowIdx + 1}

AdvanceIsScriptStep ==
  [][(Advance /\ <<pc, rowIdx>>' # <<pc, rowIdx>>) <=> ScriptStep]_vars

\* Weak fairness of the script's own steps, and none of Response.
LiveSpec == LiveInit /\ [][Next]_vars /\ WF_<<pc, rowIdx>>(Advance)

-----------------------------------------------------------------------------
(*                              THE CLAIMS                                 *)
-----------------------------------------------------------------------------

(* C8.  What is left of a token after the percent signs, the whitespace    *)
(* and the commas are stripped.                                            *)
Stripped(v) ==
  SelectSeq(v, LAMBDA c : c \notin WhitespaceChars \cup {"%", ","})

\* A decimal numeral: an optional sign, then digits with at most one
\* decimal point and at least one digit.
IsDecimalNumeral(s) ==
  LET body == IF s # <<>> /\ Head(s) \in {"-", "+"} THEN Tail(s) ELSE s
  IN /\ \E i \in 1..Len(body) : body[i] \in Digits
     /\ \A i \in 1..Len(body) : body[i] \in Digits \cup {"."}
     /\ Cardinality({i \in 1..Len(body) : body[i] = "."}) <= 1

\* C8 (as claimed): parsePercentToNumber returns a number exactly when the
\* stripped token is a decimal numeral, and null for every other token, the
\* empty cell "" and a lone "%" included.
C8_NumberIffDecimalNumeral ==
  pc = "return" => (ret.kind = "num" <=> IsDecimalNumeral(Stripped(arg)))

-----------------------------------------------------------------------------
(* C2.                                                                     *)

\* The elements on the chain heading, parent, grandparent, ...
AncestorsOrSelf(d, n) == {a \in 1..n : n \in Subtree(d, a)}

\* Those that findCardRootByHeading of part_000 tests: 24 levels at most.
TestedChain(d, n) ==
  {a \in AncestorsOrSelf(d, n) : d[n].depth - d[a].depth < ClimbLevelsPart000}

ExactlyOneTable(d, a) == Cardinality(DescendantTables(d, a)) = 1

\* C2: the card root of part_000 is the nearest element of the tested chain
\* with exactly one table below it, never one with no table or with two or
\* more, and the function fails when the tested chain has no such element.
C2_NearestExactlyOneTable ==
  (pc = "return" /\ variant = "part000") =>
    LET h == locatorFirst(doc, HeadingT)
        ones == {a \in TestedChain(doc, h) : ExactlyOneTable(doc, a)}
    IN IF ones = {} THEN ret = NoNode
       ELSE /\ ret \in ones
            /\ \A a \in ones : doc[a].depth <= doc[ret].depth

\* C2 witness: the card was found above an ancestor that has no table, in a
\* page whose root has two tables.
C2_Witness ==
  /\ pc = "return" /\ variant = "part000"
  /\ ret # NoNode
  /\ doc[locatorFirst(doc, HeadingT)].depth - doc[ret].depth >= 2
  /\ Cardinality(DescendantTables(doc, 1)) = 2

-----------------------------------------------------------------------------
(* C10.                                                                    *)

KeyDigits(k) ==
  CASE k = "1y" -> <<"1">> [] k = "2y" -> <<"2">> [] k = "3y" -> <<"3">>
    [] k = "5y" -> <<"5">> [] k = "7y" -> <<"7">>
    [] k = "10y" -> <<"1", "0">> [] k = "30y" -> <<"3", "0">>

RECURSIVE LeadingDigits(_)
LeadingDigits(s) ==
  IF s # <<>> /\ Head(s) \in Digits
  THEN <<Head(s)>> \o LeadingDigits(Tail(s)) ELSE <<>>

\* The label matches ^N\s*year: its leading digits are N, then optional
\* whitespace, then "year".
MatchesDigitsYear(lw, k) ==
  LET d == LeadingDigits(lw)
  IN /\ d = KeyDigits(k)
     /\ startsWith(TrimLeft(SubSeq(lw, Len(d) + 1, Len(lw))), year)

\* Whether the SOFR rule of key k applies to the lowercased label.
SofrRuleApplies(lw, k) ==
  CASE k = "sofr" -> lw = <<"s", "o", "f", "r">>
    [] k = "30d-avg" -> /\ includes(lw, <<"3", "0", "-", "d", "a", "y">>)
                        /\ includes(lw, <<"a", "v", "e", "r", "a", "g", "e">>)
    [] k = "90d-avg" -> /\ includes(lw, <<"9", "0", "-", "d", "a", "y">>)
                        /\ includes(lw, <<"a", "v", "e", "r", "a", "g", "e">>)
    [] k = "1m-term" -> /\ includes(lw, <<"1", "-", "m", "o", "n", "t", "h">>)
                        /\ includes(lw, <<"t", "e", "r", "m">>)
    [] k = "3m-term" -> /\ includes(lw, <<"3", "-", "m", "o", "n", "t", "h">>)
                        /\ includes(lw, <<"t", "e", "r", "m">>)

SofrRuleOrder == <<"sofr", "30d-avg", "90d-avg", "1m-term", "3m-term">>

\* Neither mapper leaves its enumeration, and every key has a label.
KeysClosedAndProduced ==
  /\ \A l \in ExampleLabels :
       /\ mapKeyTreasury(l) \in TreasuryKeys \cup {NullStr}
       /\ mapKeySofr(l) \in SofrKeys \cup {NullStr}
  /\ \A k \in TreasuryKeys : \E l \in Labels : mapKeyTreasury(l) = k
  /\ \A k \in SofrKeys : \E l \in Labels : mapKeySofr(l) = k

\* C10 (as claimed): the Treasury mapper returns Ny exactly when the
\* lowercased label is N, optional whitespace, then "year"; the SOFR mapper
\* returns the key of each documented rule for the labels the rule names, and
\* unrecognized otherwise; no key is outside the enumerations.
C10_MappingAsDocumented ==
  pc = "return" =>
    LET lw == toLowerCase(arg)
    IN /\ ret.treasury \in TreasuryKeys \cup {NullStr}
       /\ ret.sofr \in SofrKeys \cup {NullStr}
       /\ \A k \in TreasuryKeys :
            ret.treasury = k <=> MatchesDigitsYear(lw, k)
       /\ \A k \in SofrKeys : SofrRuleApplies(lw, k) => ret.sofr = k
       /\ ret.sofr = "sofr" => SofrRuleApplies(lw, "sofr")
       /\ (\A k \in SofrKeys : ~SofrRuleApplies(lw, k)) => ret.sofr = NullStr

\* C10 (amended): the Treasury mapper returns Ny exactly when the label,
\* lowercased and with all its whitespace removed, starts with N followed by
\* "year"; the SOFR mapper returns the key of the first rule, in the order
\* sofr, 30d-avg, 90d-avg, 1m-term, 3m-term, that applies to the lowercased,
\* trimmed label, and unrecognized when none applies; no key is outside the
\* enumerations and every key has a label.
C10_MappingAmended ==
  /\ KeysClosedAndProduced
  /\ pc = "return" =>
       LET lw == trim(toLowerCase(arg))
           sq == SelectSeq(lw, LAMBDA c : c \notin WhitespaceChars)
       IN /\ ret.treasury \in TreasuryKeys \cup {NullStr}
          /\ ret.sofr \in SofrKeys \cup {NullStr}
          /\ \A k \in TreasuryKeys :
               ret.treasury = k <=> startsWith(sq, KeyDigits(k) \o year)
          /\ \A i \in 1..Len(SofrRuleOrder) :
               ret.sofr = SofrRuleOrder[i] <=>
                 /\ SofrRuleApplies(lw, SofrRuleOrder[i])
                 /\ \A j \in 1..(i - 1) :
                      ~SofrRuleApplies(lw, SofrRuleOrder[j])

\* C10 witness: a label with whitespace inside its digits was mapped to 10y.
C10_Witness ==
  /\ pc = "return"
  /\ arg = <<"1", " ", "0", "Y", "e", "a", "r">>
  /\ ret.treasury = "10y"

(* C7.  extractUpdatedDateFromCard returns the first date that matches     *)
(* inside the window of 120 (run.mjs) or 140 (part_000) characters that    *)
(* starts at the last "updated", in any case, of the card's collapsed      *)
(* text; the first date of the whole text only when "updated" does not     *)
(* occur; and it fails when that window holds no date, whatever precedes   *)
(* the window.                                                             *)
CardText == trim(CollapseWhitespace(TextContent(doc, 1)))

UpdatedAt == {i \in 1..Len(CardText) : LowerTok(CardText[i]) = "updated"}

\* The date at token j matches in the w characters of s that start at
\* token i.
MatchesInWindow(s, i, j, w) ==
  /\ j >= i /\ s[j] \in DateToks
  /\ CharLen(SubSeq(s, i, j)) <= w
  /\ j = i \/ ~WordEnd(s[j - 1])
  /\ j = Len(s) \/ CharLen(SubSeq(s, i, j)) = w \/ ~WordStart(s[j + 1])

FirstDateInWindow(s, i, w) ==
  LET ds == {j \in 1..Len(s) : MatchesInWindow(s, i, j, w)}
  IN IF ds = {} THEN NoText ELSE <<s[Min(ds)]>>

C7_LastUpdatedWindow ==
  (pc = "return") =>
    LET w == IF variant = "run" THEN 120 ELSE 140
    IN IF UpdatedAt = {}
       THEN ret = FirstDateInWindow(CardText, 1, CharLen(CardText))
       ELSE ret = FirstDateInWindow(CardText, Max(UpdatedAt), w)

\* Two "Updated" phrases with different dates: the later one is returned.
C7_Witness ==
  /\ pc = "return" /\ Cardinality(UpdatedAt) >= 2
  /\ ret # NoText
  /\ ret # FirstDateInWindow(CardText, Min(UpdatedAt), 140)
  /\ FirstDateInWindow(CardText, Min(UpdatedAt), 140) # NoText

(* C4.  Every date extractThreeHeaderDatesFromCard returns occurs in the   *)
(* text of an element that precedes the table; a date found only in the    *)
(* table or in the footer after it is never returned; and with fewer than  *)
(* three distinct dates before the table the extractor fails.              *)
CardTable == querySelectorTable(doc, 1)

\* The elements that come before the table without holding it.
PrecedingNodes == {n \in 1..(CardTable - 1) : CardTable \notin Subtree(doc, n)}

\* The date lexemes in the text nodes of the elements before the table.
DatesBeforeTable ==
  UNION {{CollapseTok(t) : t \in Range(OwnText(doc[n])) \cap DateToks} :
           n \in PrecedingNodes}

C4_DatesOnlyFromBeforeTable ==
  (pc = "return" /\ variant = "part000") =>
    /\ ret # NoDates =>
         \A col \in {ret.col1, ret.col2, ret.col3} :
           \E dd \in DatesBeforeTable : col = <<dd>>
    /\ Cardinality(DatesBeforeTable) < 3 => ret = NoDates

(* C5.  For a card whose table has no header dates and whose elements      *)
(* before the table hold at least three distinct dates, the triple of      *)
(* extractThreeHeaderDatesFromCard is the first three distinct dates in     *)
(* document order.                                                         *)
RECURSIVE MatchesOfNodes(_)
MatchesOfNodes(n) ==
  IF n >= CardTable THEN <<>>
  ELSE (IF n \in PrecedingNodes
        THEN DateMatches(CollapseWhitespace(OwnText(doc[n]))) ELSE <<>>)
       \o MatchesOfNodes(n + 1)

FirstThreeBeforeTable == UniqUpTo(MatchesOfNodes(1), <<>>, 3)

C5_FirstThreeInDocumentOrder ==
  (/\ pc = "return" /\ variant = "part000"
   /\ ~doc[CardTable].hasThead
   /\ Len(FirstThreeBeforeTable) = 3) =>
    ret = [col1 |-> FirstThreeBeforeTable[1], col2 |-> FirstThreeBeforeTable[2],
           col3 |-> FirstThreeBeforeTable[3]]


(* C1.  A POST is issued only when the Treasury mapping holds all seven    *)
(* keys and the SOFR mapping all five: every key has a row of its table    *)
(* whose label maps to it and whose three values parse; once a key is      *)
(* found absent the run aborts and nothing is ever posted.                 *)
Complete(m, keys) == \A k \in keys : m[k] # Absent

RowParses(r) ==
  /\ parsePercentToNumber(r.col1).kind = "num"
  /\ parsePercentToNumber(r.col2).kind = "num"
  /\ parsePercentToNumber(r.col3).kind = "num"

TreasuryRecordable ==
  {mapKeyTreasury(r.termLabel) :
     r \in {x \in Range(tableRows(doc[treasuryTable])) : RowParses(x)}}

SofrRecordable ==
  {mapKeySofr(r.termLabel) :
     r \in {x \in Range(tableRows(doc[sofrTable])) : RowParses(x)}}

C1_CompletenessGate ==
  /\ pc \in {"sofrRows", "post", "response"} =>
       Complete(treasury, TreasuryKeys)
  /\ pc \in {"post", "response"} => Complete(sofr, SofrKeys)
  /\ posted # <<>> =>
       /\ Complete(treasury, TreasuryKeys) /\ Complete(sofr, SofrKeys)
       /\ TreasuryKeys \subseteq TreasuryRecordable
       /\ SofrKeys \subseteq SofrRecordable
  /\ \A i \in 1..Len(posted) :
       /\ Complete(posted[i].treasury, TreasuryKeys)
       /\ Complete(posted[i].sofr, SofrKeys)

\* A run that found the 2 Year row missing or dropped has ended without a
\* POST.
C1_Witness ==
  /\ pc = "exited" /\ exitCode = 1
  /\ err = "Missing treasury row for term_key: 2y"
  /\ posted = <<>>

(* C3.  In src/run.mjs, on a page with two headings, each followed by its  *)
(* own table and its own "Updated" phrase, the card of a heading does not  *)
(* hold the other heading's table, the table found in the card is the      *)
(* heading's own, and the updated date of the Treasury card is not the     *)
(* date of the SOFR footer.                                                *)
OwnTable(h) ==
  LET after == {n \in (h + 1)..Len(doc) : doc[n].kind = "table"}
  IN IF after = {} THEN NoNode ELSE Min(after)

\* The date lexemes of the elements after node lo and before node hi.
DatesBetween(lo, hi) ==
  UNION {{<<CollapseTok(t)>> : t \in Range(OwnText(doc[n])) \cap DateToks} :
           n \in (lo + 1)..(hi - 1)}

TwoCardPage ==
  LET hT == locatorFirst(doc, HeadingT)
      hS == locatorFirst(doc, HeadingS)
  IN /\ hT # NoNode /\ hS # NoNode /\ hT < hS
     /\ OwnTable(hT) # NoNode /\ OwnTable(hT) < hS
     /\ OwnTable(hS) # NoNode
     /\ Cardinality({n \in 1..Len(doc) : doc[n].kind = "table"}) = 2
     /\ DatesBetween(OwnTable(hT), hS) # {}
     /\ DatesBetween(OwnTable(hS), Len(doc) + 1) # {}
     /\ DatesBetween(OwnTable(hT), hS)
          \cap DatesBetween(OwnTable(hS), Len(doc) + 1) = {}

C3_CardsAreDisjoint ==
  (variant = "run" /\ pc \notin {"call", "return"} /\ TwoCardPage) =>
    LET tT == OwnTable(locatorFirst(doc, HeadingT))
        tS == OwnTable(locatorFirst(doc, HeadingS))
    IN /\ treasuryCard # NoNode => tS \notin Subtree(doc, treasuryCard)
       /\ sofrCard # NoNode => tT \notin Subtree(doc, sofrCard)
       /\ treasuryTable # NoNode => treasuryTable = tT
       /\ sofrTable # NoNode => sofrTable = tS
       /\ treasuryUpdated \notin DatesBetween(tS, Len(doc) + 1)

(* C6.  In src/run.mjs, every payload that is posted has three pairwise    *)
(* distinct header dates for each dataset.                                 *)
PairwiseDistinct(dt) == Cardinality({dt.col1, dt.col2, dt.col3}) = 3

C6_PostedDatesDistinct ==
  (variant = "run") =>
    \A i \in 1..Len(posted) :
      /\ PairwiseDistinct(posted[i].treasury_dates)
      /\ PairwiseDistinct(posted[i].sofr_dates)

(* C9.  A row with a recognized label is recorded under its key, with its  *)
(* three numbers, if and only if its three value cells parse; otherwise    *)
(* the step leaves the mapping as it was; and no record that is held or    *)
(* posted has a column that is not a number.                               *)
RecordOf(r) ==
  [col1 |-> parsePercentToNumber(r.col1), col2 |-> parsePercentToNumber(r.col2),
   col3 |-> parsePercentToNumber(r.col3)]

NumRecord(rec) ==
  rec.col1.kind = "num" /\ rec.col2.kind = "num" /\ rec.col3.kind = "num"

NumRecords(m) == \A k \in DOMAIN m : m[k] # Absent => NumRecord(m[k])

C9_AllOrNothingRows ==
  [][/\ (pc = "treasuryRows" /\ rowIdx' = rowIdx + 1) =>
          LET r == tableRows(doc[treasuryTable])[rowIdx]
              key == mapKeyTreasury(r.termLabel)
          IN key # NullStr =>
               IF RowParses(r) THEN treasury'[key] = RecordOf(r)
               ELSE treasury' = treasury
     /\ (pc = "sofrRows" /\ rowIdx' = rowIdx + 1) =>
          LET r == tableRows(doc[sofrTable])[rowIdx]
              key == mapKeySofr(r.termLabel)
          IN key # NullStr =>
               IF RowParses(r) THEN sofr'[key] = RecordOf(r)
               ELSE sofr' = sofr
     /\ NumRecords(treasury') /\ NumRecords(sofr')
     /\ \A i \in 1..Len(posted') :
          NumRecords(posted'[i].treasury) /\ NumRecords(posted'[i].sofr)
    ]_vars

\* The 2 Year row, one of whose values does not parse, was passed over.
C9_Witness ==
  /\ pc = "treasuryRows" /\ rowIdx > 1
  /\ LET r == tableRows(doc[treasuryTable])[rowIdx - 1]
     IN /\ mapKeyTreasury(r.termLabel) = "2y"
        /\ parsePercentToNumber(r.col1).kind = "num"
        /\ ~RowParses(r)
  /\ treasury["2y"] = Absent

(* C11.  When required keys are absent from a family's mapping the error   *)
(* names the first absent key in the order of the family's enumeration,    *)
(* whatever the order of the table rows; when both families are            *)
(* incomplete the error is the Treasury one.                               *)
FirstAbsent(required, present) ==
  LET gone == {i \in 1..Len(required) : required[i] \notin present}
  IN IF gone = {} THEN NullStr ELSE required[Min(gone)]

\* The run got to the row loops (both updated dates are set) and has thrown.
ThrewAfterRows ==
  sofrUpdated # NoText /\ pc \in {"catch", "exited"} /\ exitCode # 0
  /\ posted = <<>>

C11_FirstMissingKeyNamed ==
  ThrewAfterRows =>
    LET kT == FirstAbsent(<<"1y", "2y", "3y", "5y", "7y", "10y", "30y">>,
                          TreasuryRecordable)
        kS == FirstAbsent(<<"sofr", "30d-avg", "90d-avg", "1m-term",
                            "3m-term">>, SofrRecordable)
    IN IF kT # NullStr
       THEN err = "Missing treasury row for term_key: " \o kT
       ELSE kS # NullStr /\ err = "Missing SOFR row for term_key: " \o kS

\* Both tables are incomplete, the Treasury rows come 30 Year first and lack
\* 2 Year and 5 Year: the error names 2y.
C11_Witness ==
  /\ ThrewAfterRows /\ pc = "exited"
  /\ err = "Missing treasury row for term_key: 2y"
  /\ "5y" \notin TreasuryRecordable
  /\ mapKeyTreasury(tableRows(doc[treasuryTable])[1].termLabel) = "30y"
  /\ ~(SofrKeys \subseteq SofrRecordable)

(* C12.  Every run ends, in success or in failure: the process exits       *)
(* whatever the page, the headings and the endpoint do.                    *)
C12_EveryRunTerminates == <>(pc = "exited")

\* The positions in the order in which main passes them.
PositionOrder ==
  <<"start", "launch", "goto", "treasuryCard", "sofrCard", "treasuryTable",
    "sofrTable", "treasuryDates", "sofrDates", "assertDates",
    "treasuryUpdated", "sofrUpdated", "treasuryRows", "sofrRows", "post",
    "response", "catch", "exited">>

Rank(p) == CHOOSE i \in 1..Len(PositionOrder) : PositionOrder[i] = p

\* The message the claim describes for the response r, written out.
StatusAndBody(r) ==
  "Edge function error " \o ToString(r.status) \o ": " \o r.text

Refused(r) == r # NoResponse /\ ~(r.status >= 200 /\ r.status <= 299)

C13_Step ==
  /\ \/ Rank(pc') > Rank(pc)
     \/ /\ pc' = pc /\ pc \in {"treasuryRows", "sofrRows"}
        /\ rowIdx' = rowIdx + 1
  /\ pc = "catch" => pc' = "exited" /\ exitCode' = 1 /\ posted' = posted
  /\ posted' # posted => pc = "post" /\ posted = <<>> /\ Len(posted') = 1
  /\ (pc = "response" /\ Refused(res')) =>
        pc' = "catch" /\ err' = StatusAndBody(res') /\ posted' = posted
  /\ (pc' = "exited" /\ Refused(res')) =>
        exitCode' = 1 /\ err' = StatusAndBody(res') /\ Len(posted') = 1
  /\ (pc' = "exited" /\ exitCode' = 0) =>
        /\ pc = "response" /\ Len(posted') = 1
        /\ res' # NoResponse /\ res'.status >= 200 /\ res'.status <= 299

(* C13.  Single delivery, no retry: no step of a run is taken again (so the *)
(* page is loaded at most once and a failed extraction is not re-attempted), *)
(* at most one POST is made, a response with a non-success status ends the  *)
(* run through the catch handler with exit code 1 and an error made of the  *)
(* status and the response body verbatim, with no second POST, and the run  *)
(* exits with success only after a success response to its POST.            *)
C13_SingleDeliveryNoRetry == [][C13_Step]_vars

C13_Witness ==
  /\ pc = "exited" /\ exitCode = 1 /\ Len(posted) = 1
  /\ res = [status |-> 500, text |-> "Internal Server Error"]
  /\ err = "Edge function error 500: Internal Server Error"

RequiredEnv == {"RATES_ENDPOINT", "RATES_API_TOKEN", "RATES_SOURCE_URL"}

AbsentEnv == {k \in RequiredEnv : ~env[k]}

\* Nothing of the browser, the page, the extraction or the delivery has
\* happened.
NothingDone ==
  /\ treasuryCard = NoNode /\ sofrCard = NoNode
  /\ treasuryTable = NoNode /\ sofrTable = NoNode
  /\ treasury_dates = NoDates /\ sofr_dates = NoDates
  /\ treasuryUpdated = NoText /\ sofrUpdated = NoText
  /\ rowIdx = 1
  /\ \A k \in TreasuryKeys : treasury[k] = Absent
  /\ \A k \in SofrKeys : sofr[k] = Absent
  /\ posted = <<>> /\ res = NoResponse

(* C14.  Configuration gate: when one of RATES_ENDPOINT, RATES_API_TOKEN,   *)
(* RATES_SOURCE_URL is absent or empty, the run is at its start or has      *)
(* exited with code 1 and an error naming an absent value, and no launch,   *)
(* page load, extraction step or POST has happened; so a run is past the    *)
(* start only when all three are present.                                   *)
C14_ConfigurationGate ==
  AbsentEnv # {} =>
    /\ pc \in {"start", "exited"}
    /\ NothingDone
    /\ pc = "exited" =>
         /\ exitCode = 1
         /\ \E k \in AbsentEnv : err = "Missing env: " \o k

C14_Witness ==
  /\ pc = "exited" /\ exitCode = 1
  /\ AbsentEnv = {"RATES_API_TOKEN", "RATES_SOURCE_URL"}
  /\ err = "Missing env: RATES_API_TOKEN"
  /\ NothingDone

\* The card handles the steps of a dataset read.
\* Mutant of TreasuryCardHandle: one handle shared by both datasets, the
\* card located last.
LastCardHandle == IF sofrCard # NoNode THEN sofrCard ELSE treasuryCard

TreasuryCardHandle ==
  treasuryCard

SofrCardHandle ==
  sofrCard

\* The steps of main on the two datasets, taken in any order that keeps the
\* order of each dataset's own steps: arg holds the step each dataset is at
\* and the row each loop is at.  A throw in either ends the run, as in main.
ParStart == [treasury |-> "card", sofr |-> "card", ti |-> 1, si |-> 1]

\* The header dates of one dataset, with the assert3UniqueDates that
\* part_000 makes on them.
DatesOutcome(v) ==
  IF v = NoDates THEN "missing"
  ELSE IF variant = "part000" /\ ~assert3UniqueDates(v) THEN "repeated"
  ELSE "ok"

\* const treasuryCard = await findCardRootByHeading(page, ...)
ParTreasuryCard ==
  /\ pc = "interleaved" /\ arg.treasury = "card"
  /\ LET v == FindCard(HeadingT)
     IN IF v = NoNode
        THEN Throw(CardError(HeadingT)) /\ UNCHANGED <<treasuryCard, arg>>
        ELSE /\ treasuryCard' = v /\ arg' = [arg EXCEPT !.treasury = "table"]
             /\ pc' = pc /\ err' = err
  /\ UNCHANGED <<variant, ret, env, doc, sofrCard, treasuryTable, sofrTable,
                 treasury_dates, sofr_dates, treasuryUpdated, sofrUpdated,
                 rowIdx, treasury, sofr, posted, exitCode, res>>

\* const treasuryTable = await findTableWithin(treasuryCard)
ParTreasuryTable ==
  /\ pc = "interleaved" /\ arg.treasury = "table"
  /\ LET v == findTableWithin(doc, TreasuryCardHandle)
     IN IF v = NoNode
        THEN Throw("Could not find table inside card") /\ UNCHANGED <<treasuryTable, arg>>
        ELSE /\ treasuryTable' = v /\ arg' = [arg EXCEPT !.treasury = "dates"]
             /\ pc' = pc /\ err' = err
  /\ UNCHANGED <<variant, ret, env, doc, treasuryCard, sofrCard, sofrTable,
                 treasury_dates, sofr_dates, treasuryUpdated, sofrUpdated,
                 rowIdx, treasury, sofr, posted, exitCode, res>>

\* const treasury_dates = await extractThreeHeaderDates...; assert3UniqueDates
ParTreasuryDates ==
  /\ pc = "interleaved" /\ arg.treasury = "dates"
  /\ LET v == HeaderDates(treasuryTable, TreasuryCardHandle)
     IN IF DatesOutcome(v) = "missing"
        THEN Throw(HeaderDatesError) /\ UNCHANGED <<treasury_dates, arg>>
        ELSE IF DatesOutcome(v) = "repeated"
        THEN Throw("Treasury header dates are not 3 unique values")
             /\ UNCHANGED <<treasury_dates, arg>>
        ELSE /\ treasury_dates' = v /\ arg' = [arg EXCEPT !.treasury = "updated"]
             /\ pc' = pc /\ err' = err
  /\ UNCHANGED <<variant, ret, env, doc, treasuryCard, sofrCard,
                 treasuryTable, sofrTable, sofr_dates, treasuryUpdated,
                 sofrUpdated, rowIdx, treasury, sofr, posted, exitCode, res>>

\* const treasuryUpdated = await extractUpdatedDateFromCard(treasuryCard)
ParTreasuryUpdated ==
  /\ pc = "interleaved" /\ arg.treasury = "updated"
  /\ LET v == extractUpdatedDateFromCard(variant, doc, TreasuryCardHandle)
     IN IF v = NoText
        THEN Throw(UpdatedError) /\ UNCHANGED <<treasuryUpdated, arg>>
        ELSE /\ treasuryUpdated' = v /\ arg' = [arg EXCEPT !.treasury = "rows"]
             /\ pc' = pc /\ err' = err
  /\ UNCHANGED <<variant, ret, env, doc, treasuryCard, sofrCard,
                 treasuryTable, sofrTable, treasury_dates, sofr_dates,
                 sofrUpdated, rowIdx, treasury, sofr, posted, exitCode, res>>

\* One iteration of the loop over the rows of the treasury table.
ParTreasuryRow ==
  /\ pc = "interleaved" /\ arg.treasury = "rows"
  /\ arg.ti <= Len(tableRows(doc[treasuryTable]))
  /\ LET r == tableRows(doc[treasuryTable])[arg.ti]
     IN treasury' = FoldRow(treasury, mapKeyTreasury(r.termLabel), r)
  /\ arg' = [arg EXCEPT !.ti = @ + 1]
  /\ pc' = pc /\ err' = err
  /\ UNCHANGED <<variant, ret, env, doc, treasuryCard, sofrCard,
                 treasuryTable, sofrTable, treasury_dates, sofr_dates,
                 treasuryUpdated, sofrUpdated, rowIdx, sofr, posted,
                 exitCode, res>>

\* The loop over required that ends the extraction of the treasury rates.
ParTreasuryRequiredKeys ==
  /\ pc = "interleaved" /\ arg.treasury = "rows"
  /\ arg.ti > Len(tableRows(doc[treasuryTable]))
  /\ LET k == FirstMissing(treasury, TreasuryRequired)
     IN IF k # NullStr
        THEN Throw("Missing treasury row for term_key: " \o k)
             /\ UNCHANGED arg
        ELSE arg' = [arg EXCEPT !.treasury = "done"] /\ pc' = pc /\ err' = err
  /\ UNCHANGED <<variant, ret, env, doc, treasuryCard, sofrCard,
                 treasuryTable, sofrTable, treasury_dates, sofr_dates,
                 treasuryUpdated, sofrUpdated, rowIdx, treasury, sofr,
                 posted, exitCode, res>>

\* const sofrCard = await findCardRootByHeading(page, ...)
ParSofrCard ==
  /\ pc = "interleaved" /\ arg.sofr = "card"
  /\ LET v == FindCard(HeadingS)
     IN IF v = NoNode
        THEN Throw(CardError(HeadingS)) /\ UNCHANGED <<sofrCard, arg>>
        ELSE /\ sofrCard' = v /\ arg' = [arg EXCEPT !.sofr = "table"]
             /\ pc' = pc /\ err' = err
  /\ UNCHANGED <<variant, ret, env, doc, treasuryCard, treasuryTable,
                 sofrTable, treasury_dates, sofr_dates, treasuryUpdated,
                 sofrUpdated, rowIdx, treasury, sofr, posted, exitCode, res>>

\* const sofrTable = await findTableWithin(sofrCard)
ParSofrTable ==
  /\ pc = "interleaved" /\ arg.sofr = "table"
  /\ LET v == findTableWithin(doc, SofrCardHandle)
     IN IF v = NoNode
        THEN Throw("Could not find table inside card") /\ UNCHANGED <<sofrTable, arg>>
        ELSE /\ sofrTable' = v /\ arg' = [arg EXCEPT !.sofr = "dates"]
             /\ pc' = pc /\ err' = err
  /\ UNCHANGED <<variant, ret, env, doc, treasuryCard, sofrCard,
                 treasuryTable, treasury_dates, sofr_dates, treasuryUpdated,
                 sofrUpdated, rowIdx, treasury, sofr, posted, exitCode, res>>

\* const sofr_dates = await extractThreeHeaderDates...; assert3UniqueDates
ParSofrDates ==
  /\ pc = "interleaved" /\ arg.sofr = "dates"
  /\ LET v == HeaderDates(sofrTable, SofrCardHandle)
     IN IF DatesOutcome(v) = "missing"
        THEN Throw(HeaderDatesError) /\ UNCHANGED <<sofr_dates, arg>>
        ELSE IF DatesOutcome(v) = "repeated"
        THEN Throw("SOFR header dates are not 3 unique values")
             /\ UNCHANGED <<sofr_dates, arg>>
        ELSE /\ sofr_dates' = v /\ arg' = [arg EXCEPT !.sofr = "updated"]
             /\ pc' = pc /\ err' = err
  /\ UNCHANGED <<variant, ret, env, doc, treasuryCard, sofrCard,
                 treasuryTable, sofrTable, treasury_dates, treasuryUpdated,
                 sofrUpdated, rowIdx, treasury, sofr, posted, exitCode, res>>

\* const sofrUpdated = await extractUpdatedDateFromCard(sofrCard)
ParSofrUpdated ==
  /\ pc = "interleaved" /\ arg.sofr = "updated"
  /\ LET v == extractUpdatedDateFromCard(variant, doc, SofrCardHandle)
     IN IF v = NoText
        THEN Throw(UpdatedError) /\ UNCHANGED <<sofrUpdated, arg>>
        ELSE /\ sofrUpdated' = v /\ arg' = [arg EXCEPT !.sofr = "rows"]
             /\ pc' = pc /\ err' = err
  /\ UNCHANGED <<variant, ret, env, doc, treasuryCard, sofrCard,
                 treasuryTable, sofrTable, treasury_dates, sofr_dates,
                 treasuryUpdated, rowIdx, treasury, sofr, posted, exitCode,
                 res>>

\* One iteration of the loop over the rows of the SOFR table.
ParSofrRow ==
  /\ pc = "interleaved" /\ arg.sofr = "rows"
  /\ arg.si <= Len(tableRows(doc[sofrTable]))
  /\ LET r == tableRows(doc[sofrTable])[arg.si]
     IN sofr' = FoldRow(sofr, mapKeySofr(r.termLabel), r)
  /\ arg' = [arg EXCEPT !.si = @ + 1]
  /\ pc' = pc /\ err' = err
  /\ UNCHANGED <<variant, ret, env, doc, treasuryCard, sofrCard,
                 treasuryTable, sofrTable, treasury_dates, sofr_dates,
                 treasuryUpdated, sofrUpdated, rowIdx, treasury, posted,
                 exitCode, res>>

\* The loop over required that ends the extraction of the SOFR rates.
ParSofrRequiredKeys ==
  /\ pc = "interleaved" /\ arg.sofr = "rows"
  /\ arg.si > Len(tableRows(doc[sofrTable]))
  /\ LET k == FirstMissing(sofr, SofrRequired)
     IN IF k # NullStr
        THEN Throw("Missing SOFR row for term_key: " \o k)
             /\ UNCHANGED arg
        ELSE arg' = [arg EXCEPT !.sofr = "done"] /\ pc' = pc /\ err' = err
  /\ UNCHANGED <<variant, ret, env, doc, treasuryCard, sofrCard,
                 treasuryTable, sofrTable, treasury_dates, sofr_dates,
                 treasuryUpdated, sofrUpdated, rowIdx, treasury, sofr,
                 posted, exitCode, res>>

\* Both extractions are done: main goes on to assemble and post the payload.
ParJoin ==
  /\ pc = "interleaved" /\ arg.treasury = "done" /\ arg.sofr = "done"
  /\ pc' = "post" /\ err' = err
  /\ UNCHANGED <<variant, arg, ret, env, doc, treasuryCard, sofrCard,
                 treasuryTable, sofrTable, treasury_dates, sofr_dates,
                 treasuryUpdated, sofrUpdated, rowIdx, treasury, sofr,
                 posted, exitCode, res>>
ParPages ==
  {Page(layout, <<>>, TableOf(1, GoodThead, GoodTreasuryRows),
        TableOf(1, GoodThead, GoodSofrRows)) :
     layout \in {"noSofrHeading", "noTables", "noFooter"}}
  \cup {Page("cards", pre, TableOf(1, GoodThead, GoodTreasuryRows),
               TableOf(1, GoodThead, GoodSofrRows)) : pre \in PreTexts}
  \cup {Page("cards", <<>>, tt[1], tt[2]) :
          tt \in ReversedPairs
                \ {<<TableOf(1, GoodThead, Reverse(GoodTreasuryRows)),
                     TableOf(1, GoodThead, Reverse(GoodSofrRows))>>}}

ParInit ==
  /\ pc = "interleaved" /\ variant \in {"run", "part000"}
  /\ arg = ParStart /\ ret = NoNode
  /\ env = AllSet /\ doc \in ParPages
  /\ Locals

ParNext ==
  \/ ParTreasuryCard \/ ParTreasuryTable \/ ParTreasuryDates
  \/ ParTreasuryUpdated \/ ParTreasuryRow \/ ParTreasuryRequiredKeys
  \/ ParSofrCard \/ ParSofrTable \/ ParSofrDates
  \/ ParSofrUpdated \/ ParSofrRow \/ ParSofrRequiredKeys
  \/ ParJoin \/ Post \/ Response \/ Catch

SpecParallel == ParInit /\ [][ParNext]_vars

\* What the order of main computes from the document: each local of main
\* as a function of the document.
RECURSIVE FoldRowsFrom(_, _, _, _)
FoldRowsFrom(m, keys, rows, i) ==
  IF i > Len(rows) THEN m
  ELSE FoldRowsFrom(FoldRow(m, keys[i], rows[i]), keys, rows, i + 1)

SeqTreasuryCard == FindCard(HeadingT)

SeqSofrCard == FindCard(HeadingS)

SeqTable(cardEl) ==
  IF cardEl = NoNode THEN NoNode ELSE findTableWithin(doc, cardEl)

SeqDates(cardEl) ==
  IF SeqTable(cardEl) = NoNode THEN NoDates
  ELSE HeaderDates(SeqTable(cardEl), cardEl)

SeqUpdated(cardEl) ==
  IF cardEl = NoNode THEN NoText
  ELSE extractUpdatedDateFromCard(variant, doc, cardEl)

SeqTreasury ==
  LET rows == IF SeqTable(SeqTreasuryCard) = NoNode THEN <<>>
              ELSE tableRows(doc[SeqTable(SeqTreasuryCard)])
  IN FoldRowsFrom([k \in TreasuryKeys |-> Absent],
                  [i \in 1..Len(rows) |-> mapKeyTreasury(rows[i].termLabel)],
                  rows, 1)

SeqSofr ==
  LET rows == IF SeqTable(SeqSofrCard) = NoNode THEN <<>>
              ELSE tableRows(doc[SeqTable(SeqSofrCard)])
  IN FoldRowsFrom([k \in SofrKeys |-> Absent],
                  [i \in 1..Len(rows) |-> mapKeySofr(rows[i].termLabel)],
                  rows, 1)

SeqSucceeds ==
  /\ SeqTable(SeqTreasuryCard) # NoNode /\ SeqTable(SeqSofrCard) # NoNode
  /\ DatesOutcome(SeqDates(SeqTreasuryCard)) = "ok"
  /\ DatesOutcome(SeqDates(SeqSofrCard)) = "ok"
  /\ SeqUpdated(SeqTreasuryCard) # NoText /\ SeqUpdated(SeqSofrCard) # NoText
  /\ FirstMissing(SeqTreasury, TreasuryRequired) = NullStr
  /\ FirstMissing(SeqSofr, SofrRequired) = NullStr

SeqPayload ==
  [dates |-> [treasury |-> SeqUpdated(SeqTreasuryCard),
              sofr |-> SeqUpdated(SeqSofrCard)],
   treasury_dates |-> SeqDates(SeqTreasuryCard),
   sofr_dates |-> SeqDates(SeqSofrCard),
   treasury |-> SeqTreasury, sofr |-> SeqSofr]

(* C15.  Independence of the two extractions: however the Treasury steps    *)
(* and the SOFR steps are interleaved, each step yields what the order of   *)
(* main yields from the document, the run aborts in extraction exactly when *)
(* the order of main does, and the payload it assembles and posts is the    *)
(* one the order of main assembles.                                         *)
C15_InterleavingIndependent ==
  /\ treasuryCard # NoNode => treasuryCard = SeqTreasuryCard
  /\ sofrCard # NoNode => sofrCard = SeqSofrCard
  /\ treasuryTable # NoNode => treasuryTable = SeqTable(SeqTreasuryCard)
  /\ sofrTable # NoNode => sofrTable = SeqTable(SeqSofrCard)
  /\ treasury_dates # NoDates => treasury_dates = SeqDates(SeqTreasuryCard)
  /\ sofr_dates # NoDates => sofr_dates = SeqDates(SeqSofrCard)
  /\ treasuryUpdated # NoText => treasuryUpdated = SeqUpdated(SeqTreasuryCard)
  /\ sofrUpdated # NoText => sofrUpdated = SeqUpdated(SeqSofrCard)
  /\ pc \in {"post", "response"} => SeqSucceeds /\ payload = SeqPayload
  /\ posted # <<>> => SeqSucceeds /\ posted = <<SeqPayload>>
  /\ (pc \in {"catch", "exited"} /\ posted = <<>>) => ~SeqSucceeds

C15_Witness ==
  /\ pc = "interleaved" /\ variant = "part000"
  /\ arg.sofr = "done" /\ arg.treasury = "rows" /\ arg.ti = 3
  /\ sofr = SeqSofr /\ SeqSucceeds

\* The labels of the rows of the two tables the run reads.
RowLabels(tableEl) ==
  IF tableEl = NoNode THEN {}
  ELSE {tableRows(doc[tableEl])[i].termLabel :
          i \in 1..Len(tableRows(doc[tableEl]))}

ShapedPayload(p) ==
  /\ DOMAIN p.treasury = TreasuryKeys /\ DOMAIN p.sofr = SofrKeys
  /\ \A k \in TreasuryKeys : p.treasury[k] # Absent /\ NumRecord(p.treasury[k])
  /\ \A k \in SofrKeys : p.sofr[k] # Absent /\ NumRecord(p.sofr[k])
  /\ p.dates.treasury # NoText /\ p.dates.sofr # NoText
  /\ \A dt \in {p.treasury_dates, p.sofr_dates} :
       dt.col1 # NoText /\ dt.col2 # NoText /\ dt.col3 # NoText

(* C16.  Payload shape: every posted payload has a record of three numbers  *)
(* under each of the seven Treasury keys and each of the five SOFR keys, no *)
(* row of either table is stored under any other key, and dates.treasury,   *)
(* dates.sofr and the six header dates are all present.                     *)
C16_PayloadShape ==
  posted # <<>> =>
    /\ \A i \in 1..Len(posted) : ShapedPayload(posted[i])
    /\ \A l \in RowLabels(treasuryTable) :
         mapKeyTreasury(l) \in TreasuryKeys \cup {NullStr}
    /\ \A l \in RowLabels(sofrTable) :
         mapKeySofr(l) \in SofrKeys \cup {NullStr}

C16_Witness ==
  /\ pc = "exited" /\ exitCode = 0 /\ Len(posted) = 1
  /\ ShapedPayload(posted[1])
  /\ \E i \in 1..Len(tableRows(doc[treasuryTable])) :
       ~NumRecord(RecordOf(tableRows(doc[treasuryTable])[i]))

\* The record of the last tr of the table, in table order, that has four
\* cells, whose label the given keys take to k and whose three values all
\* parse; Absent when there is none.  keys[i] is the key of the i-th tr.
RawRecord(tr) ==
  [col1 |-> parsePercentToNumber(trim(tr[2])),
   col2 |-> parsePercentToNumber(trim(tr[3])),
   col3 |-> parsePercentToNumber(trim(tr[4]))]

LastRecorded(trs, keys, k) ==
  LET S == {i \in 1..Len(trs) :
              /\ Len(trs[i]) >= 4 /\ keys[i] = k
              /\ NumRecord(RawRecord(trs[i]))}
  IN IF S = {} THEN Absent
     ELSE RawRecord(trs[CHOOSE i \in S : \A j \in S : j <= i])

TreasuryTrKeys ==
  [i \in 1..Len(doc[treasuryTable].rows) |->
     IF Len(doc[treasuryTable].rows[i]) >= 1
     THEN mapKeyTreasury(trim(doc[treasuryTable].rows[i][1])) ELSE NullStr]

SofrTrKeys ==
  [i \in 1..Len(doc[sofrTable].rows) |->
     IF Len(doc[sofrTable].rows[i]) >= 1
     THEN mapKeySofr(trim(doc[sofrTable].rows[i][1])) ELSE NullStr]

\* The loop over the rows of the table has ended.
TreasuryLoopDone ==
  \/ pc \in {"sofrRows", "post", "response"}
  \/ pc = "treasuryRows" /\ rowIdx > Len(tableRows(doc[treasuryTable]))

SofrLoopDone ==
  \/ pc \in {"post", "response"}
  \/ pc = "sofrRows" /\ rowIdx > Len(tableRows(doc[sofrTable]))

FinalRecords ==
  /\ TreasuryLoopDone =>
       \A k \in TreasuryKeys :
         treasury[k] = LastRecorded(doc[treasuryTable].rows, TreasuryTrKeys, k)
  /\ SofrLoopDone =>
       \A k \in SofrKeys :
         sofr[k] = LastRecorded(doc[sofrTable].rows, SofrTrKeys, k)

RowFrame ==
  /\ (pc = "treasuryRows" /\ rowIdx' = rowIdx + 1) =>
       LET r == tableRows(doc[treasuryTable])[rowIdx]
           key == mapKeyTreasury(r.termLabel)
       IN /\ sofr' = sofr
          /\ IF key = NullStr \/ ~RowParses(r) THEN treasury' = treasury
             ELSE /\ treasury'[key] = RecordOf(r)
                  /\ \A k \in TreasuryKeys \ {key} : treasury'[k] = treasury[k]
  /\ (pc = "sofrRows" /\ rowIdx' = rowIdx + 1) =>
       LET r == tableRows(doc[sofrTable])[rowIdx]
           key == mapKeySofr(r.termLabel)
       IN /\ treasury' = treasury
          /\ IF key = NullStr \/ ~RowParses(r) THEN sofr' = sofr
             ELSE /\ sofr'[key] = RecordOf(r)
                  /\ \A k \in SofrKeys \ {key} : sofr'[k] = sofr[k]

====
